---- MODULE Spec2Model ----
(***************************************************************************)
(* TD-PSOLA pitch shifting engine (SOURCE/TD-PSOLA/TD_PSOLA.cpp).          *)
(*                                                                         *)
(* One call of TDPSOLA::process or TDPSOLA::processWithGrainExport is      *)
(* modelled as a state machine: the arguments are drawn in Init, every     *)
(* stage of the pipeline is one action, the pitch-mark tracking loop is    *)
(* one action per iteration.                                               *)
(*                                                                         *)
(* Numbers.  Samples are small integers.  fRatio and inTypeScalar are      *)
(* exact rationals [num, den]; sampleRate, maxHz, minHz, analysisWindowMs  *)
(* are integers, so that static_cast<int>(a / b) is a \div b.  Synthesis   *)
(* marks are exact rationals.  The values the code reads from the          *)
(* transform buffer are the exact circular autocorrelation the transform   *)
(* pair computes, scaled by fftSize to stay integral; float rounding is    *)
(* not modelled.  A windowed output sample is kept symbolically, as the    *)
(* sequence of the terms windowData[w] * inputData[src] added to it.       *)
(*                                                                         *)
(* Within the explored periods (below 50) the exact products period * 0.98,*)
(* period * 1.02 and period * 1.1 truncate as their float counterparts do. *)
(* A call that does not return ends in pc = "hang" (a loop that cannot     *)
(* end) or pc = "crash" (a read outside the transform buffer); the         *)
(* tracking loop is followed for MaxMarks marks.                           *)
(***************************************************************************)
EXTENDS Integers, Sequences, FiniteSets, TLC

\* ------------------------------------------------------------------------
\* Bounds of the explored inputs
\* ------------------------------------------------------------------------
MaxSamples == 6
MaxStereoSamples == 3

SampleValues == {0, 1}

Ratios ==
    { [num |-> -1, den |-> 1], [num |-> 0, den |-> 1],
      [num |-> 1, den |-> 2],  [num |-> 1, den |-> 1],
      [num |-> 7, den |-> 4] }

SampleRates == {0, 100, 200}

\* Config (TD_PSOLA.h:32-38); inTypeScalar keeps its default 2.2 = 11/5.
Configs ==
    { [maxHz |-> 200, minHz |-> 25, analysisWindowMs |-> 25,
       inTypeScalarNum |-> 11, inTypeScalarDen |-> 5],
      [maxHz |-> 100, minHz |-> 25, analysisWindowMs |-> 25,
       inTypeScalarNum |-> 11, inTypeScalarDen |-> 5],
      [maxHz |-> 100, minHz |-> 25, analysisWindowMs |-> 5,
       inTypeScalarNum |-> 11, inTypeScalarDen |-> 5],
      [maxHz |-> 60, minHz |-> 55, analysisWindowMs |-> 40,
       inTypeScalarNum |-> 11, inTypeScalarDen |-> 5],
      [maxHz |-> 50, minHz |-> 25, analysisWindowMs |-> 25,
       inTypeScalarNum |-> 11, inTypeScalarDen |-> 5] }

\* ------------------------------------------------------------------------
\* Small arithmetic helpers
\* ------------------------------------------------------------------------
Min(a, b) == IF a < b THEN a ELSE b
Max(a, b) == IF a > b THEN a ELSE b
Abs(a) == IF a < 0 THEN -a ELSE a

\* ------------------------------------------------------------------------
\* juce::AudioBuffer<float>: channel count, sample count, channel data
\* ------------------------------------------------------------------------
Buffer(c, n, d) == [numChannels |-> c, numSamples |-> n, data |-> d]

InputBuffers ==
    { Buffer(0, 0, <<>>) }
    \cup { Buffer(1, Len(s), <<s>>) :
             s \in UNION { [1..n -> SampleValues] : n \in 0..MaxSamples } }
    \cup { Buffer(2, Len(p[1]), p) :
             p \in UNION { [1..2 -> [1..n -> SampleValues]] :
                             n \in 0..MaxStereoSamples } }

\* A sample of the output is the sequence of the terms added to it since it
\* was cleared; <<>> is 0.0f.  StaleSample stands for whatever an earlier
\* use of the caller's buffer left in it.
Term(j, w, len, src) == [grain |-> j, w |-> w, len |-> len, src |-> src]
StaleSample == << Term(-1, -1, -1, -1) >>

\* AudioBuffer::setSize(numChannels, numSamples, false, true, false)
\* followed by clear()
ClearedBuffer(c, n) == Buffer(c, n, [ch \in 1..c |-> [i \in 1..n |-> <<>>]])

\* GrainData (GrainExport.h)
EmptyGrainData ==
    [fRatio |-> [num |-> 0, den |-> 1], signalLength |-> 0,
     numAnalysisGrains |-> 0, numSynthesisGrains |-> 0,
     synthesisGrains |-> <<>>]

StaleGrainData ==
    [fRatio |-> [num |-> 1, den |-> 1], signalLength |-> 9,
     numAnalysisGrains |-> 1, numSynthesisGrains |-> 1,
     synthesisGrains |->
        << [grainId |-> 0, centerSample |-> 4, startSample |-> 0,
            endSample |-> 8, sourceAnalysisId |-> 0, sourceCenter |-> 4,
            sourceStart |-> 0, sourceEnd |-> 8, sourcePeriod |-> 4,
            synthesisPeriod |-> 4, windowAlpha |-> [num |-> 4, den |-> 5],
            durationSamples |-> 8] >>]

\* What the caller passes as outputBuffer and grainData: default-constructed
\* objects, or objects that an earlier call has filled.
OutputBefore(c) ==
    IF c = "fresh" THEN Buffer(0, 0, <<>>)
    ELSE Buffer(1, 2, << <<StaleSample, StaleSample>> >>)

GrainDataBefore(c) ==
    IF c = "fresh" THEN EmptyGrainData ELSE StaleGrainData

\* The transform plan of the instance before the call: the one the
\* constructor makes (order 12), or the one an earlier call with a
\* two-sample analysis window left behind
NewPlanSize == 2^12
UsedPlanSize == 2

PlanBefore(i) == IF i = "new" THEN NewPlanSize ELSE UsedPlanSize

\* ------------------------------------------------------------------------
\* detectPitchPeriods: the conversions of its first lines
\* ------------------------------------------------------------------------
\* Variant of MinPeriodSamples: the quotient rounded to nearest, not truncated
MinPeriodSamplesRounded(sr, cfg) == (2 * sr + cfg.maxHz) \div (2 * cfg.maxHz)

\* static_cast<int>(sampleRate / config.maxHz)
MinPeriodSamples(sr, cfg) == sr \div cfg.maxHz

\* static_cast<int>(sampleRate / config.minHz)
MaxPeriodSamples(sr, cfg) == sr \div cfg.minHz

\* static_cast<int>(config.analysisWindowMs / 1000.0f * sampleRate)
SequenceLength(sr, cfg) == (cfg.analysisWindowMs * sr) \div 1000

\* static_cast<int>(std::ceil(std::log2(sequenceLength))) for sequenceLength >= 1
FftOrder(len) == CHOOSE o \in 0..30 : 2^o >= len /\ \A q \in 0..(o - 1) : 2^q < len

FftSize(len) == 2^FftOrder(len)

\* ------------------------------------------------------------------------
\* computePeriodsPerSequence
\* ------------------------------------------------------------------------
RECURSIVE SumUpTo(_, _)
\* f[0] + ... + f[n - 1]
SumUpTo(f, n) == IF n <= 0 THEN 0 ELSE f[n - 1] + SumUpTo(f, n - 1)

\* The real input of performRealOnlyForwardTransform is the first fftSize
\* floats of the cleared buffer: fftData[2m] = signalData[offset + m] for
\* m < currentSequence, every other float 0.  Only the samples with
\* 2m < fftSize take part; WindowSamples is that sequence, indexed from 0.
WindowSamples(sig, offset, currentSequence, half) ==
    [m \in 0..(half - 1) |->
        IF m < currentSequence THEN sig[offset + m + 1] ELSE 0]

\* fftData[2i] after the inverse transform, for 2i < fftSize, times fftSize:
\* the circular autocorrelation at lag 2i of the interleaved input, less the
\* removed DC bin.
AcfValue(w, half, i) ==
    LET r == SumUpTo([m \in 0..(half - 1) |-> w[m] * w[(m + i) % half]], half)
        dc == SumUpTo(w, half)
    IN  (2 * half) * r - dc * dc

RECURSIVE PeakScanLastMaximum(_, _, _, _, _, _)
\* Variant of PeakScan: value >= peakValue, so the last maximum wins
PeakScanLastMaximum(w, half, i, last, peakIndex, peakValue) ==
    IF i >= last THEN peakIndex
    ELSE LET value == AcfValue(w, half, i)
         IN  IF value >= peakValue
             THEN PeakScanLastMaximum(w, half, i + 1, last, i, value)
             ELSE PeakScanLastMaximum(w, half, i + 1, last, peakIndex, peakValue)

RECURSIVE PeakScan(_, _, _, _, _, _)
\* for (i = ...; i < std::min(maxPeriod, fftSize / 2); i++)
\*     if (value > peakValue) { peakValue = value; peakIndex = i; }
PeakScan(w, half, i, last, peakIndex, peakValue) ==
    IF i >= last THEN peakIndex
    ELSE LET value == AcfValue(w, half, i)
         IN  IF value > peakValue
             THEN PeakScan(w, half, i + 1, last, i, value)
             ELSE PeakScan(w, half, i + 1, last, peakIndex, peakValue)

\* The peak search of one analysis window.  When the loop body never runs
\* the value read at fftData[minPeriod * 2] is not used and the result is
\* minPeriod.
PeakIndex(sig, offset, currentSequence, fftSize, minPeriod, maxPeriod) ==
    LET half == fftSize \div 2
        last == Min(maxPeriod, half)
    IN  IF minPeriod + 1 >= last THEN minPeriod
        ELSE LET w == WindowSamples(sig, offset, currentSequence, half)
             IN  PeakScan(w, half, minPeriod + 1, last, minPeriod,
                          AcfValue(w, half, minPeriod))

RECURSIVE PeriodsFromWholeWindows(_, _, _, _, _, _)
\* Variant of PeriodsFrom: while (offset + sequenceLength <= numSamples),
\* so a shorter last window is dropped
PeriodsFromWholeWindows(sig, offset, sequenceLength, minPeriod, maxPeriod, fftSize) ==
    IF offset + sequenceLength > Len(sig) THEN <<>>
    ELSE << PeakIndex(sig, offset, sequenceLength,
                      fftSize, minPeriod, maxPeriod) >>
         \o PeriodsFromWholeWindows(sig, offset + sequenceLength, sequenceLength,
                                    minPeriod, maxPeriod, fftSize)

RECURSIVE PeriodsFrom(_, _, _, _, _, _)
\* while (offset < numSamples) { ...; offset += sequenceLength; }
PeriodsFrom(sig, offset, sequenceLength, minPeriod, maxPeriod, fftSize) ==
    IF offset >= Len(sig) THEN <<>>
    ELSE LET currentSequence == Min(sequenceLength, Len(sig) - offset)
         IN  << PeakIndex(sig, offset, currentSequence,
                          fftSize, minPeriod, maxPeriod) >>
             \o PeriodsFrom(sig, offset + sequenceLength, sequenceLength,
                            minPeriod, maxPeriod, fftSize)

\* Variant of PlanSize: a held plan is only ever replaced by a smaller one
PlanSizeOnlyShrinking(held, fftSize) == Min(held, fftSize)

\* if (!mFFT || mFFT->getSize() != fftSize) mFFT = make_unique<FFT>(fftOrder):
\* the size of the transform plan the instance holds afterwards, given the
\* size of the plan it held before
PlanSize(held, fftSize) == IF held /= fftSize THEN fftSize ELSE held

\* Variant of ComputePeriodsPerSequence: nothing is estimated unless the
\* signal holds one whole analysis window
ComputePeriodsNeedingWholeWindow(held, sig, sequenceLength, minPeriod, maxPeriod) ==
    IF Len(sig) < sequenceLength THEN <<>>
    ELSE PeriodsFrom(sig, 0, sequenceLength, minPeriod, maxPeriod,
                     PlanSize(held, FftSize(sequenceLength)))

\* sequenceLength >= 1 here: with sequenceLength = 0 the loop never ends.
\* held is the size of the plan the instance holds on entry; the windows
\* are transformed with the plan held after lines 181-182.
ComputePeriodsPerSequence(held, sig, sequenceLength, minPeriod, maxPeriod) ==
    PeriodsFrom(sig, 0, sequenceLength, minPeriod, maxPeriod,
                PlanSize(held, FftSize(sequenceLength)))

\* The indices of fftData that one iteration of the window loop reads or
\* writes: the copy of the window, the DC bin, the power spectrum, the seed
\* of the peak search and the peak search
TransformBufferIndices(currentSequence, fftSize, minPeriod, maxPeriod) ==
    { i * 2 : i \in 0..(currentSequence - 1) }
    \cup { i * 2 + 1 : i \in 0..(currentSequence - 1) }
    \cup { 0 }
    \cup { i * 2 : i \in 0..(fftSize - 1) }
    \cup { i * 2 + 1 : i \in 0..(fftSize - 1) }
    \cup { minPeriod * 2 }
    \cup { i * 2 : i \in (minPeriod + 1)..(Min(maxPeriod, fftSize \div 2) - 1) }

\* The read of fftData[minPeriod * 2] lies outside the 2 * fftSize floats
FftReadOutOfBounds(sequenceLength, minPeriod) ==
    minPeriod * 2 >= 2 * FftSize(sequenceLength)

\* ------------------------------------------------------------------------
\* detectPitchPeriods: bounds of the second pass
\* ------------------------------------------------------------------------
RECURSIVE SeqSum(_)
SeqSum(s) == IF s = <<>> THEN 0 ELSE Head(s) + SeqSum(Tail(s))

SquareEach(s) == [i \in 1..Len(s) |-> s[i] * s[i]]

\* n^2 * (variance / n) = n * sum(p^2) - (sum p)^2, so that
\* stdPeriod = sqrt(SpreadSquared(periods)) / n
SpreadSquared(periods) ==
    Len(periods) * SeqSum(SquareEach(periods)) - SeqSum(periods) * SeqSum(periods)

\* static_cast<int>(meanPeriod + config.inTypeScalar * stdPeriod):
\* the greatest m with m <= (kd * S + kn * sqrt(W)) / (kd * n)
MaxVariedPeriod(periods, cfg) ==
    LET n  == Len(periods)
        S  == SeqSum(periods)
        W  == SpreadSquared(periods)
        kn == cfg.inTypeScalarNum
        kd == cfg.inTypeScalarDen
        AtMost(m) == \/ m * kd * n - kd * S <= 0
                     \/ (m * kd * n - kd * S) * (m * kd * n - kd * S) <= kn * kn * W
        top == (kd * S + kn * W) \div (kd * n) + 1
    IN  CHOOSE m \in 0..top : AtMost(m) /\ ~AtMost(m + 1)

\* static_cast<int>(meanPeriod - config.inTypeScalar * stdPeriod):
\* truncation is toward zero, also when the difference is negative
MinVariedPeriod(periods, cfg) ==
    LET n  == Len(periods)
        S  == SeqSum(periods)
        W  == SpreadSquared(periods)
        kn == cfg.inTypeScalarNum
        kd == cfg.inTypeScalarDen
        NonNeg == (kd * S) * (kd * S) >= kn * kn * W
        Below(m) == /\ kd * S - m * kd * n >= 0
                    /\ (kd * S - m * kd * n) * (kd * S - m * kd * n) >= kn * kn * W
        BelowNeg(m) == (m * kd * n + kd * S) * (m * kd * n + kd * S) <= kn * kn * W
        top == (kn * W) \div (kd * n) + 1
    IN  IF NonNeg
        THEN CHOOSE m \in 0..(S \div n) : Below(m) /\ ~Below(m + 1)
        ELSE -(CHOOSE m \in 0..top : BelowNeg(m) /\ ~BelowNeg(m + 1))

\* One pass of the estimator: the bounds it was given and what it returned
Pass(lower, upper, ps) == [lower |-> lower, upper |-> upper, periods |-> ps]
NoPass == Pass(0, 0, <<>>)

FirstPass(held, sig, sr, cfg) ==
    Pass(MinPeriodSamples(sr, cfg), MaxPeriodSamples(sr, cfg),
         ComputePeriodsPerSequence(held, sig, SequenceLength(sr, cfg),
                                   MinPeriodSamples(sr, cfg),
                                   MaxPeriodSamples(sr, cfg)))

\* Variant of SecondPass: the varied periods used as they are, not limited
\* by the bounds of the first pass
SecondPassUnlimited(held, sig, sr, cfg, first) ==
    LET lower == MinVariedPeriod(first.periods, cfg)
        upper == MaxVariedPeriod(first.periods, cfg)
    IN  Pass(lower, upper,
             ComputePeriodsPerSequence(held, sig, SequenceLength(sr, cfg),
                                       lower, upper))

\* held is the size of the plan the first pass left in the instance
SecondPass(held, sig, sr, cfg, first) ==
    LET lower == Max(first.lower, MinVariedPeriod(first.periods, cfg))
        upper == Min(first.upper, MaxVariedPeriod(first.periods, cfg))
    IN  Pass(lower, upper,
             ComputePeriodsPerSequence(held, sig, SequenceLength(sr, cfg),
                                       lower, upper))

\* ------------------------------------------------------------------------
\* placePitchMarks
\* ------------------------------------------------------------------------
RECURSIVE AbsPeakScanSigned(_, _, _, _, _)
\* Variant of AbsPeakScan: signal[i] > maxVal, the signed values compared
AbsPeakScanSigned(sig, i, last, peak, maxVal) ==
    IF i > last THEN peak
    ELSE IF sig[i + 1] > maxVal
         THEN AbsPeakScanSigned(sig, i + 1, last, i, sig[i + 1])
         ELSE AbsPeakScanSigned(sig, i + 1, last, peak, maxVal)

RECURSIVE AbsPeakScan(_, _, _, _, _)
\* for (i = ...; i < / <= last; i++)
\*     if (std::abs(signal[i]) > std::abs(maxVal)) { maxVal = signal[i]; peak = i; }
\* over the 0-based indices i..last, last included
AbsPeakScan(sig, i, last, peak, maxVal) ==
    IF i > last THEN peak
    ELSE IF Abs(sig[i + 1]) > Abs(maxVal)
         THEN AbsPeakScan(sig, i + 1, last, i, sig[i + 1])
         ELSE AbsPeakScan(sig, i + 1, last, peak, maxVal)

\* The first mark: the peak of |signal| in [0, min(firstPeriod * 1.1, numSamples))
FirstPeak(sig, periods) ==
    LET searchRange == Min((periods[1] * 11) \div 10, Len(sig))
    IN  AbsPeakScan(sig, 1, searchRange - 1, 0, sig[1])

\* static_cast<int>(period * minChangeRatio), static_cast<int>(period * maxChangeRatio)
MinExpected(prevPeak, period) == prevPeak + (period * 98) \div 100
MaxExpected(prevPeak, period) == prevPeak + (period * 102) \div 100

\* The two break conditions of the tracking loop
TrackingStops(sig, periods, hopSize, prevPeak) ==
    LET periodIdx == prevPeak \div hopSize
    IN  \/ periodIdx >= Len(periods)
        \/ MaxExpected(prevPeak, periods[periodIdx + 1]) >= Len(sig)

\* Variant of NextPeak: the peak is reported one sample late
NextPeakOneLate(sig, periods, hopSize, prevPeak) ==
    LET period == periods[(prevPeak \div hopSize) + 1]
        lo == MinExpected(prevPeak, period)
        hi == MaxExpected(prevPeak, period)
    IN  AbsPeakScan(sig, lo + 1, hi, lo, sig[lo + 1]) + 1

\* The mark one iteration of the tracking loop appends
NextPeak(sig, periods, hopSize, prevPeak) ==
    LET period == periods[(prevPeak \div hopSize) + 1]
        lo == MinExpected(prevPeak, period)
        hi == MaxExpected(prevPeak, period)
    IN  AbsPeakScan(sig, lo + 1, hi, lo, sig[lo + 1])

\* ------------------------------------------------------------------------
\* interpolatePitchMarks
\* ------------------------------------------------------------------------
\* Variant of NumNewMarks: the product rounded to nearest, not truncated
NumNewMarksRounded(numOriginalMarks, ratio) ==
    (2 * numOriginalMarks * ratio.num + ratio.den) \div (2 * ratio.den)

\* static_cast<int>(pitchMarks.size() * fRatio)
NumNewMarks(numOriginalMarks, ratio) == (numOriginalMarks * ratio.num) \div ratio.den

Clamp(x, lo, hi) == IF x < lo THEN lo ELSE IF x > hi THEN hi ELSE x

\* Variant of Blend: the two weights exchanged
BlendSwapped(left, right, wNum, den) == left * wNum + right * (den - wNum)

\* pitchMarks[leftIdx] * (1 - weight) + pitchMarks[rightIdx] * weight, with
\* weight = wNum / den
Blend(left, right, wNum, den) == left * (den - wNum) + right * wNum

\* The i-th synthesis mark (i from 0), an exact rational num / den
InterpolatedMark(pitchMarks, numNewMarks, i) ==
    LET n        == Len(pitchMarks)
        den      == IF numNewMarks - 1 > 0 THEN numNewMarks - 1 ELSE 1
        refNum   == i * (n - 1)
        leftIdx  == Clamp(refNum \div den, 0, n - 1)
        rightIdx == Clamp((refNum + den - 1) \div den, 0, n - 1)
        wNum     == refNum - leftIdx * den
    IN  [num |-> Blend(pitchMarks[leftIdx + 1], pitchMarks[rightIdx + 1], wNum, den),
         den |-> den]

\* Variant of InterpolatePitchMarks: never fewer than one synthesis mark
InterpolatePitchMarksAtLeastOne(pitchMarks, ratio) ==
    IF pitchMarks = <<>> THEN <<>>
    ELSE LET numNewMarks == Max(1, NumNewMarks(Len(pitchMarks), ratio))
         IN  [i \in 1..numNewMarks |->
                 InterpolatedMark(pitchMarks, numNewMarks, i - 1)]

\* interpolatePitchMarks
InterpolatePitchMarks(pitchMarks, ratio) ==
    IF pitchMarks = <<>> THEN <<>>
    ELSE LET numNewMarks == NumNewMarks(Len(pitchMarks), ratio)
         IN  [i \in 1..numNewMarks |->
                 InterpolatedMark(pitchMarks, numNewMarks, i - 1)]

\* ------------------------------------------------------------------------
\* psolaOverlapAdd / psolaOverlapAddWithGrainExport
\* ------------------------------------------------------------------------
\* static_cast<int>(a / b) for b > 0: truncation toward zero
TruncQuot(a, b) == IF a >= 0 THEN a \div b ELSE -((-a) \div b)

\* alpha = (fRatio >= 1.0f) ? 0.8f : 0.6f
WindowAlpha(ratio) ==
    IF ratio.num >= ratio.den THEN [num |-> 4, den |-> 5] ELSE [num |-> 3, den |-> 5]

\* std::abs(analysisPitchMarks[i] - synthMark), times synthMark.den
MarkDistance(mark, synthMark) == Abs(mark * synthMark.den - synthMark.num)

RECURSIVE ClosestScanLastNearest(_, _, _, _, _)
\* Variant of ClosestScan: dist <= minDist, so the last of several equally
\* near marks wins
ClosestScanLastNearest(marks, synthMark, i, closestIdx, minDist) ==
    IF i >= Len(marks) THEN closestIdx
    ELSE LET dist == MarkDistance(marks[i + 1], synthMark)
         IN  IF dist <= minDist
             THEN ClosestScanLastNearest(marks, synthMark, i + 1, i, dist)
             ELSE ClosestScanLastNearest(marks, synthMark, i + 1, closestIdx, minDist)

RECURSIVE ClosestScan(_, _, _, _, _)
\* for (i = ...; i < analysisPitchMarks.size(); i++)
\*     if (dist < minDist) { minDist = dist; closestIdx = i; }
ClosestScan(marks, synthMark, i, closestIdx, minDist) ==
    IF i >= Len(marks) THEN closestIdx
    ELSE LET dist == MarkDistance(marks[i + 1], synthMark)
         IN  IF dist < minDist
             THEN ClosestScan(marks, synthMark, i + 1, i, dist)
             ELSE ClosestScan(marks, synthMark, i + 1, closestIdx, minDist)

ClosestIdx(marks, synthMark) ==
    ClosestScan(marks, synthMark, 1, 0, MarkDistance(marks[1], synthMark))

\* Variant of GrainGeometry: the start of the destination window is not
\* clipped at 0
GrainGeometryUnclipped(numSamples, marks, synth, j) ==
    LET synthMark    == synth[j + 1]
        closestIdx   == ClosestIdx(marks, synthMark)
        analysisMark == marks[closestIdx + 1]
        toPrev0 == IF closestIdx = 0 THEN analysisMark
                   ELSE analysisMark - marks[closestIdx]
        toNext0 == IF closestIdx = Len(marks) - 1
                   THEN numSamples - 1 - analysisMark
                   ELSE marks[closestIdx + 2] - analysisMark
        samplesToPrev == IF analysisMark - toPrev0 < 0 THEN analysisMark ELSE toPrev0
        samplesToNext == IF analysisMark + toNext0 > numSamples - 1
                         THEN numSamples - 1 - analysisMark ELSE toNext0
        center         == TruncQuot(synthMark.num, synthMark.den)
        newWindowStart == center - samplesToPrev
        newWindowEnd   == Min(numSamples, center + samplesToNext)
        windowLength   == newWindowEnd - newWindowStart
        origWindowStart == Max(0, analysisMark - samplesToPrev)
        origWindowEnd0  == Min(numSamples, analysisMark + samplesToNext)
        origWindowEnd   == IF origWindowEnd0 - origWindowStart > windowLength
                           THEN origWindowStart + windowLength ELSE origWindowEnd0
    IN  [closestIdx |-> closestIdx, analysisMark |-> analysisMark,
         samplesToPrev |-> samplesToPrev, samplesToNext |-> samplesToNext,
         center |-> center,
         newWindowStart |-> newWindowStart, newWindowEnd |-> newWindowEnd,
         windowLength |-> windowLength,
         origWindowStart |-> origWindowStart, origWindowEnd |-> origWindowEnd]

\* Everything one iteration of the synthesis loop computes for grain j
\* (j from 0) before it copies samples
GrainGeometry(numSamples, marks, synth, j) ==
    LET synthMark    == synth[j + 1]
        closestIdx   == ClosestIdx(marks, synthMark)
        analysisMark == marks[closestIdx + 1]
        toPrev0 == IF closestIdx = 0 THEN analysisMark
                   ELSE analysisMark - marks[closestIdx]
        toNext0 == IF closestIdx = Len(marks) - 1
                   THEN numSamples - 1 - analysisMark
                   ELSE marks[closestIdx + 2] - analysisMark
        samplesToPrev == IF analysisMark - toPrev0 < 0 THEN analysisMark ELSE toPrev0
        samplesToNext == IF analysisMark + toNext0 > numSamples - 1
                         THEN numSamples - 1 - analysisMark ELSE toNext0
        center         == TruncQuot(synthMark.num, synthMark.den)
        newWindowStart == Max(0, center - samplesToPrev)
        newWindowEnd   == Min(numSamples, center + samplesToNext)
        windowLength   == newWindowEnd - newWindowStart
        origWindowStart == Max(0, analysisMark - samplesToPrev)
        origWindowEnd0  == Min(numSamples, analysisMark + samplesToNext)
        origWindowEnd   == IF origWindowEnd0 - origWindowStart > windowLength
                           THEN origWindowStart + windowLength ELSE origWindowEnd0
    IN  [closestIdx |-> closestIdx, analysisMark |-> analysisMark,
         samplesToPrev |-> samplesToPrev, samplesToNext |-> samplesToNext,
         center |-> center,
         newWindowStart |-> newWindowStart, newWindowEnd |-> newWindowEnd,
         windowLength |-> windowLength,
         origWindowStart |-> origWindowStart, origWindowEnd |-> origWindowEnd]

RECURSIVE GrainsProcessedFrom(_, _, _, _)
\* The loop leaves at the first grain with newWindowStart >= numSamples
GrainsProcessedFrom(numSamples, marks, synth, j) ==
    IF j >= Len(synth) THEN j
    ELSE IF GrainGeometry(numSamples, marks, synth, j).newWindowStart >= numSamples
         THEN j
         ELSE GrainsProcessedFrom(numSamples, marks, synth, j + 1)

GrainsProcessed(numSamples, marks, synth) ==
    GrainsProcessedFrom(numSamples, marks, synth, 0)

\* Grain g adds windowData[i] * inputData[origWindowStart + i] to
\* outputData[outputIdx], i = outputIdx - newWindowStart
GrainWrites(numSamples, g, outputIdx) ==
    LET i == outputIdx - g.newWindowStart
    IN  /\ i >= 0
        /\ i < g.windowLength
        /\ g.origWindowStart + i < g.origWindowEnd
        /\ outputIdx < numSamples
        /\ g.origWindowStart + i < numSamples

\* The copy loop of grain g: one record per sample it adds, i the index into
\* windowData, outputIdx and inputIdx the indices into the two channels
GrainCopies(numSamples, g) ==
    { [i |-> i, outputIdx |-> g.newWindowStart + i,
       inputIdx |-> g.origWindowStart + i] :
        i \in { k \in 0..(g.windowLength - 1) :
                  /\ g.origWindowStart + k < g.origWindowEnd
                  /\ g.newWindowStart + k < numSamples
                  /\ g.origWindowStart + k < numSamples } }

RECURSIVE SampleTermsOverwriting(_, _, _, _, _, _)
\* Variant of SampleTerms: outputData[outputIdx] = ..., so only the last grain
\* that writes the sample is left in it
SampleTermsOverwriting(numSamples, marks, synth, j, last, outputIdx) ==
    IF j >= last THEN <<>>
    ELSE LET g == GrainGeometry(numSamples, marks, synth, j)
             rest == SampleTermsOverwriting(numSamples, marks, synth, j + 1,
                                            last, outputIdx)
         IN  IF GrainWrites(numSamples, g, outputIdx) /\ rest = <<>>
             THEN << Term(j, outputIdx - g.newWindowStart, g.windowLength,
                          g.origWindowStart + (outputIdx - g.newWindowStart)) >>
             ELSE rest

RECURSIVE SampleTermsAddingWindow(_, _, _, _, _, _)
\* Variant of SampleTerms: outputData[outputIdx] += windowData[i], the
\* window value not multiplied with an input sample
SampleTermsAddingWindow(numSamples, marks, synth, j, last, outputIdx) ==
    IF j >= last THEN <<>>
    ELSE LET g == GrainGeometry(numSamples, marks, synth, j)
             rest == SampleTermsAddingWindow(numSamples, marks, synth, j + 1,
                                             last, outputIdx)
         IN  IF GrainWrites(numSamples, g, outputIdx)
             THEN << Term(j, outputIdx - g.newWindowStart, g.windowLength, -1) >>
                  \o rest
             ELSE rest

RECURSIVE SampleTerms(_, _, _, _, _, _)
\* What grains j .. last - 1 add, in this order, to outputData[outputIdx]
SampleTerms(numSamples, marks, synth, j, last, outputIdx) ==
    IF j >= last THEN <<>>
    ELSE LET g == GrainGeometry(numSamples, marks, synth, j)
             rest == SampleTerms(numSamples, marks, synth, j + 1, last, outputIdx)
         IN  IF GrainWrites(numSamples, g, outputIdx)
             THEN << Term(j, outputIdx - g.newWindowStart, g.windowLength,
                          g.origWindowStart + (outputIdx - g.newWindowStart)) >> \o rest
             ELSE rest

\* The output channel after psolaOverlapAdd: cleared, then every grain added
PsolaOverlapAdd(numSamples, marks, synth) ==
    LET last == GrainsProcessed(numSamples, marks, synth)
    IN  [o \in 1..numSamples |->
            SampleTerms(numSamples, marks, synth, 0, last, o - 1)]

\* The record psolaOverlapAddWithGrainExport pushes for grain j
SynthesisGrain(numSamples, marks, synth, ratio, j) ==
    LET g == GrainGeometry(numSamples, marks, synth, j)
    IN  [grainId |-> j,
         centerSample |-> g.center,
         startSample |-> g.newWindowStart,
         endSample |-> g.newWindowEnd,
         sourceAnalysisId |-> g.closestIdx,
         sourceCenter |-> g.analysisMark,
         sourceStart |-> g.origWindowStart,
         sourceEnd |-> g.origWindowEnd,
         sourcePeriod |-> IF g.closestIdx < Len(marks) - 1
                          THEN marks[g.closestIdx + 2] - marks[g.closestIdx + 1]
                          ELSE g.samplesToNext,
         synthesisPeriod |-> IF j < Len(synth) - 1
                             THEN TruncQuot(synth[j + 2].num - synth[j + 1].num,
                                            synth[j + 1].den)
                             ELSE g.samplesToNext,
         windowAlpha |-> WindowAlpha(ratio),
         durationSamples |-> g.windowLength]

ExportedGrains(numSamples, marks, synth, ratio) ==
    [k \in 1..GrainsProcessed(numSamples, marks, synth) |->
        SynthesisGrain(numSamples, marks, synth, ratio, k - 1)]

\* Variant of PsolaOverlapAddWithGrainExport: a grain that is recorded is
\* not added to the output
GrainExportRecordingOnly(numSamples, marks, synth, ratio) ==
    [output |-> [o \in 1..numSamples |-> <<>>],
     grains |-> ExportedGrains(numSamples, marks, synth, ratio)]

\* psolaOverlapAddWithGrainExport: the statements of psolaOverlapAdd, and
\* after the copy loop of each grain its record pushed to synthesisGrains
PsolaOverlapAddWithGrainExport(numSamples, marks, synth, ratio) ==
    [output |-> PsolaOverlapAdd(numSamples, marks, synth),
     grains |-> ExportedGrains(numSamples, marks, synth, ratio)]

\* Variant of GrainDataAfter: synthesisGrains is not cleared, the new records
\* follow the ones the caller's object held
GrainDataAfterKeepingRecords(before, ratio, numSamples, marks, synth, grains) ==
    [fRatio |-> ratio,
     signalLength |-> numSamples,
     numAnalysisGrains |-> Len(marks),
     numSynthesisGrains |-> Len(synth),
     synthesisGrains |-> before.synthesisGrains \o grains]

\* processWithGrainExport: the caller's GrainData after its header is set,
\* synthesisGrains.clear(), and the records pushed during synthesis
GrainDataAfter(before, ratio, numSamples, marks, synth, grains) ==
    [fRatio |-> ratio,
     signalLength |-> numSamples,
     numAnalysisGrains |-> Len(marks),
     numSynthesisGrains |-> Len(synth),
     synthesisGrains |-> grains]

\* ------------------------------------------------------------------------
\* Argument validation of the two entry points
\* ------------------------------------------------------------------------
\* Variant of ProcessRejects: a buffer without samples is let through
ProcessRejectsUnlessEmpty(buf, ratio, sr) ==
    \/ ratio.num <= 0
    \/ sr <= 0
    \/ buf.numChannels = 0

\* process: the two early returns before the output is touched
ProcessRejects(buf, ratio, sr) ==
    \/ ratio.num <= 0
    \/ sr <= 0
    \/ buf.numChannels = 0
    \/ buf.numSamples = 0

\* Variant of GrainExportRejects: the mono check left out
GrainExportRejectsAnyLayout(buf, ratio, sr) ==
    \/ ratio.num <= 0
    \/ sr <= 0
    \/ buf.numChannels = 0
    \/ buf.numSamples = 0

\* processWithGrainExport: the same, and mono only
GrainExportRejects(buf, ratio, sr) ==
    \/ ratio.num <= 0
    \/ sr <= 0
    \/ buf.numChannels = 0
    \/ buf.numSamples = 0
    \/ buf.numChannels /= 1

\* Variant of ResizedOutput: the two sizes exchanged
ResizedOutputSwapped(numChannels, numSamples) == ClearedBuffer(numSamples, numChannels)

\* outputBuffer.setSize(numChannels, numSamples, false, true, false); clear()
ResizedOutput(numChannels, numSamples) == ClearedBuffer(numChannels, numSamples)

\* ------------------------------------------------------------------------
\* The pipeline of one channel as a function of the arguments
\* ------------------------------------------------------------------------
RECURSIVE TrackedMarks(_, _, _, _, _)
\* The tracking loop of placePitchMarks from the marks placed so far; <<>>
\* when it has not left after fuel further marks
TrackedMarks(sig, periods, hopSize, marks, fuel) ==
    IF TrackingStops(sig, periods, hopSize, marks[Len(marks)]) THEN marks
    ELSE IF fuel = 0 THEN <<>>
    ELSE TrackedMarks(sig, periods, hopSize,
                      Append(marks, NextPeak(sig, periods, hopSize,
                                             marks[Len(marks)])),
                      fuel - 1)

\* placePitchMarks
PlacePitchMarks(sig, periods, hopSize) ==
    TrackedMarks(sig, periods, hopSize, << FirstPeak(sig, periods) >>, Len(sig) + 1)

\* detectPitchPeriods on an instance that holds a plan of size held
DetectedPeriods(held, sig, sr, cfg) ==
    SecondPass(PlanSize(held, FftSize(SequenceLength(sr, cfg))), sig, sr, cfg,
               FirstPass(held, sig, sr, cfg)).periods

\* The body of the channel loop of process on a newly constructed instance:
\* the samples written to the output channel, for a channel sig with at
\* least one sample and a configuration for which every loop ends
ChannelOutput(sig, ratio, sr, cfg) ==
    LET marks == PlacePitchMarks(sig, DetectedPeriods(NewPlanSize, sig, sr, cfg),
                                 SequenceLength(sr, cfg))
    IN  PsolaOverlapAdd(Len(sig), marks, InterpolatePitchMarks(marks, ratio))

\* ------------------------------------------------------------------------
\* State
\* ------------------------------------------------------------------------
VARIABLES
    entry,                \* the entry point called
    inputBuffer,          \* its arguments
    fRatio,
    sampleRate,
    config,
    caller,               \* "fresh" or "reused" outputBuffer and grainData
    instance,             \* "new", or "used" by an earlier call
    outputBuffer,         \* the caller's output buffer
    grainData,            \* the caller's GrainData
    result,               \* "pending", "true", "false"
    pc,                   \* where the call is
    ch,                   \* channel being processed
    pass1,                \* first pass of detectPitchPeriods
    pass2,                \* second pass
    periods,              \* what detectPitchPeriods returned
    hopSize,
    analysisPitchMarks,
    synthesisPitchMarks,
    mFFTSize              \* size of the transform plan held by the instance

psolaVars == << entry, inputBuffer, fRatio, sampleRate, config, caller, instance,
                outputBuffer, grainData, result, pc, ch, pass1, pass2, periods,
                hopSize, analysisPitchMarks, synthesisPitchMarks, mFFTSize >>

\* AudioFileProcessor (SOURCE/Audio/AudioFileProcessor.cpp)
VARIABLES
    lastError,            \* AudioFileProcessor::lastError
    inputFile,            \* the arguments of the processFile call under way
    outputFile,
    progressCallback,     \* TRUE when a callback was passed, FALSE for nullptr
    filePc,               \* where processFile is
    fileReturned,         \* what each processFile call so far returned
    fileProgress          \* the values passed to progressCallback, in tenths

fileVars == << lastError, inputFile, outputFile, progressCallback, filePc,
               fileReturned, fileProgress >>

\* BufferProcessingManager (SOURCE/BufferProcessingManager.cpp)
VARIABLES
    mActiveProcessor,     \* BufferProcessingManager::mActiveProcessor
    connections,          \* the connections of processorGraph
    requested,            \* the arguments of the setActiveProcessor calls so far
    managerLastError,     \* BufferProcessingManager::lastError
    bufferPc,             \* where processBuffers is
    totalSamples,         \* inputBuffer.getNumSamples() of the call under way
    numInputChannels,     \* inputBuffer.getNumChannels()
    outputSized,          \* TRUE: outputBuffer has the size of inputBuffer
    blockSize,
    reportsProgress,      \* TRUE when a progressCallback was passed
    samplesProcessed,
    blocks,               \* the blocks sent through the graph, in order
    bufferProgress,       \* the values passed to progressCallback
    bufferReturned        \* "none", "true", "false": the last return value

bufferVars == << mActiveProcessor, connections, requested, managerLastError,
                 bufferPc, totalSamples, numInputChannels, outputSized,
                 blockSize, reportsProgress, samplesProcessed, blocks,
                 bufferProgress, bufferReturned >>

\* FileProcessingManager (FileProcessingManager.h/.cpp), the file members of
\* AudioFileTransformerProcessor and the file-processing part of
\* AudioFileTransformerEditor
VARIABLES
    mThread,              \* FileProcessingManager::mThread
    mIsProcessing,        \* FileProcessingManager::mIsProcessing
    threadsStarted,       \* number of ProcessingThread objects started so far
    mInputFile,           \* AudioFileTransformerProcessor::mInputFile
    mOutputFile,          \* AudioFileTransformerProcessor::mOutputFile
    currentProgress,      \* AudioFileTransformerEditor::currentProgress
    processButtonEnabled, \* processButton.isEnabled()
    statusLabel,          \* the text of statusLabel
    lastStart,            \* the last startProcessing call: what it met and did
    awaiting              \* TRUE from a click on Process until the editor
                          \* reports how the run ended

editorVars == << mThread, mIsProcessing, threadsStarted, mInputFile, mOutputFile,
                 currentProgress, processButtonEnabled, statusLabel, lastStart,
                 awaiting >>

\* The state of the components an action does not belong to
others == << fileVars, bufferVars, editorVars >>

vars == << psolaVars, fileVars, bufferVars, editorVars >>

args == << entry, inputBuffer, fRatio, sampleRate, config, caller, instance >>

locals == << pass1, pass2, periods, hopSize, analysisPitchMarks,
             synthesisPitchMarks >>

\* The tracking loop is followed for at most this many marks
MaxMarks == MaxSamples + 1

\* Variant of Channel: the view of the first channel, whatever ch is
ChannelAlwaysFirst == inputBuffer.data[1]

\* inputChannel: the single-channel view of channel ch of the input
Channel == inputBuffer.data[ch + 1]

\* ------------------------------------------------------------------------
\* AudioFileProcessor: files, messages, validation
\* ------------------------------------------------------------------------
MaxFileCalls == 3

\* A juce::String is the sequence of the pieces it was concatenated from
EmptyString == <<>>
IsEmpty(str) == \A i \in 1..Len(str) : str[i] = ""
Literal(text) == << text >>

\* What a juce::File answers: its path, what is found there, its extension
FileKinds == {"missing", "directory", "file"}
Extensions == {".wav", ".WAV", ".txt"}

File(path, kind, extension, readable, parent, writable) ==
    [fullPathName |-> path, kind |-> kind, extension |-> extension,
     readable |-> readable, parent |-> parent, parentWritable |-> writable]

\* juce::File() has an empty path and nothing is found there
NoFile == File("", "missing", "", FALSE, "missing", FALSE)

InputFiles ==
    { NoFile }
    \cup { File("in", k, e, r, "directory", TRUE) :
              k \in FileKinds, e \in Extensions, r \in BOOLEAN }

OutputFiles ==
    { NoFile }
    \cup { File("out", k, e, TRUE, d, w) :
              k \in {"missing", "file"}, e \in {".wav", ".txt"},
              d \in FileKinds, w \in BOOLEAN }

\* file.getFileExtension().toLowerCase()
ToLowerCase(extension) == IF extension = ".WAV" THEN ".wav" ELSE extension

\* FileUtils::isSupportedAudioFile
IsSupportedAudioFile(file) ==
    ToLowerCase(file.extension) = ".wav" \/ ToLowerCase(file.extension) = ".mp3"

\* FileUtils::validateInputFile: errorMsg, empty when it returns true
ValidateInputFile(file) ==
    IF file.kind /= "file"
    THEN Literal("File not found: ") \o Literal(file.fullPathName)
    ELSE IF ~IsSupportedAudioFile(file)
    THEN Literal("File format not supported. Only .wav and .mp3 files are supported: ")
         \o Literal(file.fullPathName)
    ELSE IF ~file.readable
    THEN Literal("Cannot read file (permission denied?): ")
         \o Literal(file.fullPathName)
    ELSE EmptyString

\* FileUtils::validateOutputPath: errorMsg, empty when it returns true
ValidateOutputPath(file) ==
    IF file.fullPathName = ""
    THEN Literal("Output file path is empty")
    ELSE IF file.parent = "missing"
    THEN Literal("Parent directory does not exist: ") \o Literal("parent")
    ELSE IF file.parent /= "directory"
    THEN Literal("Parent path is not a directory: ") \o Literal("parent")
    ELSE IF ~IsSupportedAudioFile(file)
    THEN Literal("Output file extension not supported. Only .wav and .mp3 are supported: ")
         \o Literal(file.extension)
    ELSE IF ~file.parentWritable
    THEN Literal("Cannot write to directory (permission denied?): ")
         \o Literal("parent")
    ELSE EmptyString

\* What createReaderFor and reader->read can do with a validated file
ReadOutcomes == {"noReader", "readFails", "read"}

\* readAudioFile: lastError afterwards, given lastError before
ReadAudioFile(file, outcome, error) ==
    IF outcome = "noReader"
    THEN Literal("Failed to create reader for file: ") \o Literal(file.fullPathName)
    ELSE IF outcome = "readFails"
    THEN Literal("Failed to read audio data from file: ")
         \o Literal(file.fullPathName)
    ELSE error

\* What deleteFile, the output stream, the WAV writer and the write can do
WriteOutcomes(file) ==
    (IF file.kind = "file" THEN {"deleteFails"} ELSE {})
    \cup {"streamFails", "noWriter", "writeFails", "written"}

\* writeAudioFile: lastError afterwards, given lastError before
WriteAudioFile(file, outcome, error) ==
    IF outcome = "deleteFails"
    THEN Literal("Failed to delete existing output file: ")
         \o Literal(file.fullPathName)
    ELSE IF outcome = "streamFails"
    THEN Literal("Failed to create output file stream: ")
         \o Literal(file.fullPathName)
    ELSE IF outcome = "noWriter"
    THEN Literal("Failed to create audio writer for output file: ")
         \o Literal(file.fullPathName)
    ELSE IF outcome = "writeFails"
    THEN Literal("Failed to write audio data to file: ")
         \o Literal(file.fullPathName)
    ELSE error

\* Variant of ErrorOnEntry: the message of the call before is kept
ErrorOnEntryKept(error) == error

\* lastError.clear(), the first statement of processFile
ErrorOnEntry(error) == EmptyString

\* progressCallback(value) when a callback was passed
Reported(progress, callback, tenths) ==
    IF callback THEN Append(progress, tenths) ELSE progress

\* A newly constructed AudioFileProcessor, no call made
AudioFileProcessorConstructed ==
    /\ lastError = EmptyString
    /\ inputFile = NoFile
    /\ outputFile = NoFile
    /\ progressCallback = FALSE
    /\ filePc = "idle"
    /\ fileReturned = <<>>
    /\ fileProgress = <<>>

\* ------------------------------------------------------------------------
\* BufferProcessingManager: the processor graph
\* ------------------------------------------------------------------------
MaxTotalSamples == 5
MaxBlockSize == 3
MaxRequests == 3

\* enum class ActiveProcessor
ActiveProcessors == {"Gain", "Granulator", "TDPSOLA"}

\* ActiveProcessor mActiveProcessor = ActiveProcessor::TDPSOLA
DefaultActiveProcessor == "TDPSOLA"

\* The three processor nodes _setupProcessorGraph adds, named by the member
\* that holds their NodeID
ProcessorNodeIDs == {"gainNodeID", "granulatorNodeID", "tdpsolaNodeID"}

\* A connection { { source node, channel }, { destination node, channel } }
Connection(sourceNode, sourceChannel, destinationNode, destinationChannel) ==
    [source |-> << sourceNode, sourceChannel >>,
     destination |-> << destinationNode, destinationChannel >>]

\* Variant of DisconnectNode: only the connections leaving the node go
DisconnectNodeOutputsOnly(conns, node) ==
    { c \in conns : c.source[1] /= node }

\* processorGraph.disconnectNode(node): every connection to or from it goes
DisconnectNode(conns, node) ==
    { c \in conns : c.source[1] /= node /\ c.destination[1] /= node }

\* processorGraph.addConnection(c) between existing nodes with two channels
AddConnection(conns, c) == conns \cup {c}

\* The if / else if / else of setActiveProcessor
ActiveNodeID(processor) ==
    IF processor = "Gain" THEN "gainNodeID"
    ELSE IF processor = "Granulator" THEN "granulatorNodeID"
    ELSE "tdpsolaNodeID"

ActiveProcessorFor(processor) ==
    IF processor = "Gain" THEN "Gain"
    ELSE IF processor = "Granulator" THEN "Granulator"
    ELSE "TDPSOLA"

\* The connections after setActiveProcessor(processor)
ConnectionsAfterSetActive(conns, processor) ==
    LET cleared == DisconnectNode(
                       DisconnectNode(
                           DisconnectNode(conns, "gainNodeID"),
                           "granulatorNodeID"),
                       "tdpsolaNodeID")
        active  == ActiveNodeID(processor)
    IN  AddConnection(
            AddConnection(
                AddConnection(
                    AddConnection(cleared,
                        Connection("audioInputNodeID", 0, active, 0)),
                    Connection(active, 0, "audioOutputNodeID", 0)),
                Connection("audioInputNodeID", 1, active, 1)),
            Connection(active, 1, "audioOutputNodeID", 1))

\* Variant of SamplesToProcess: always a whole block
SamplesToProcessWholeBlock(size, remaining) == size

\* juce::jmin(blockSize, totalSamples - samplesProcessed)
SamplesToProcess(size, remaining) == Min(size, remaining)

\* (float) samplesProcessed / (float) totalSamples, kept as the fraction
Progress(processed, total) == [num |-> processed, den |-> total]

\* A newly constructed BufferProcessingManager: _setupProcessorGraph has
\* cleared the graph, added the nodes and called
\* setActiveProcessor(mActiveProcessor)
BufferProcessingManagerConstructed ==
    /\ mActiveProcessor = ActiveProcessorFor(DefaultActiveProcessor)
    /\ connections = ConnectionsAfterSetActive({}, DefaultActiveProcessor)
    /\ requested = <<>>
    /\ managerLastError = EmptyString
    /\ bufferPc = "idle"
    /\ totalSamples = 0
    /\ numInputChannels = 0
    /\ outputSized = FALSE
    /\ blockSize = 0
    /\ reportsProgress = FALSE
    /\ samplesProcessed = 0
    /\ blocks = <<>>
    /\ bufferProgress = <<>>
    /\ bufferReturned = "none"

\* ------------------------------------------------------------------------
\* FileProcessingManager and the editor's Process button
\* ------------------------------------------------------------------------
\* ProcessingThread objects are followed up to this many starts
MaxThreads == 3

\* Progress is counted in blocks; FullProgress blocks are the whole file
FullProgress == 2

NoThread == [id |-> 0]

\* A ProcessingThread just constructed and started: mSuccess { false },
\* mError empty, run() at its first line.  callback is "editor" for the
\* editor's lambda, "none" for an empty std::function.
ProcessingThread(id, callback) ==
    [id |-> id, running |-> TRUE, at |-> "run", mSuccess |-> FALSE,
     mError |-> "", callback |-> callback, progress |-> 0]

\* juce::File::existsAsFile() of a file that existed when it was chosen: the
\* file may have been removed since
ExistsAsFile(file) == IF file = "missing" THEN {FALSE} ELSE {TRUE, FALSE}

\* ProcessingConfig as startProcessing looks at it
ProcessingConfig(inputExists, outputPathEmpty, callback) ==
    [inputExists |-> inputExists, outputPathEmpty |-> outputPathEmpty,
     callback |-> callback]

\* Variant of StartProcessingRejects: the check of mIsProcessing left out
StartProcessingRejectsUnlessFiles(isProcessing, cfg) ==
    \/ ~cfg.inputExists
    \/ cfg.outputPathEmpty

\* startProcessing: its three early returns
StartProcessingRejects(isProcessing, cfg) ==
    \/ isProcessing
    \/ ~cfg.inputExists
    \/ cfg.outputPathEmpty

\* FileProcessingManager::isProcessing
IsProcessing(thread) == thread /= NoThread /\ thread.running

\* FileProcessingManager::wasSuccessful
WasSuccessful(thread) == thread /= NoThread /\ thread.mSuccess

\* FileProcessingManager::getError
GetError(thread) ==
    IF thread = NoThread THEN "No processing has been performed"
    ELSE thread.mError

\* What a startProcessing call met: no thread object, one whose thread is
\* running, or one whose run() has returned
ThreadState(thread) ==
    IF thread = NoThread THEN "none"
    ELSE IF thread.running THEN "running" ELSE "finished"

NoStart == [met |-> "no call"]

\* FileProcessingManager::startProcessing: the manager's state after the call,
\* the value returned, and the record of the call
StartProcessing(thread, isProcessing, started, cfg) ==
    LET rejected == StartProcessingRejects(isProcessing, cfg)
        after    == IF rejected THEN thread
                    ELSE ProcessingThread(started + 1, cfg.callback)
    IN  [mThread       |-> after,
         mIsProcessing |-> IF rejected THEN isProcessing ELSE TRUE,
         started       |-> IF rejected THEN started ELSE started + 1,
         returned      |-> ~rejected,
         call          |-> [met |-> ThreadState(thread),
                            inputExists |-> cfg.inputExists,
                            outputPathEmpty |-> cfg.outputPathEmpty,
                            returned |-> ~rejected,
                            threadBefore |-> thread.id,
                            threadAfter |-> after.id]]

\* AudioFileTransformerProcessor::startFileProcessing: its own check, then
\* startProcessing
StartFileProcessing(thread, isProcessing, started, cfg) ==
    IF ~cfg.inputExists \/ cfg.outputPathEmpty
    THEN [mThread |-> thread, mIsProcessing |-> isProcessing,
          started |-> started, returned |-> FALSE, call |-> lastStart]
    ELSE StartProcessing(thread, isProcessing, started, cfg)

\* The text of statusLabel
Status(text, detail) == [text |-> text, detail |-> detail]

\* updateProcessButtonState: canProcess
CanProcess(inputExists, outputPathEmpty, thread) ==
    inputExists /\ ~outputPathEmpty /\ ~IsProcessing(thread)

\* The manager, the processor's file members and the editor after
\* construction; defaultInput tells whether setDefaultInputFile found a file
EditorConstructed(defaultInput) ==
    /\ mThread = NoThread
    /\ mIsProcessing = FALSE
    /\ threadsStarted = 0
    /\ mInputFile = defaultInput
    /\ mOutputFile = "default"
    /\ currentProgress = 0
    /\ processButtonEnabled = (defaultInput /= "missing")
    /\ statusLabel = Status("Ready", "")
    /\ lastStart = NoStart
    /\ awaiting = FALSE

Init ==
    /\ AudioFileProcessorConstructed
    /\ BufferProcessingManagerConstructed
    /\ EditorConstructed("missing")
    /\ entry \in {"process", "processWithGrainExport"}
    /\ inputBuffer \in InputBuffers
    /\ fRatio \in Ratios
    /\ sampleRate \in SampleRates
    /\ config \in Configs
    /\ caller \in {"fresh", "reused"}
    /\ instance \in {"new", "used"}
    /\ outputBuffer = OutputBefore(caller)
    /\ grainData = GrainDataBefore(caller)
    /\ result = "pending"
    /\ pc = "call"
    /\ ch = 0
    /\ pass1 = NoPass
    /\ pass2 = NoPass
    /\ periods = <<>>
    /\ hopSize = 0
    /\ analysisPitchMarks = <<>>
    /\ synthesisPitchMarks = <<>>
    /\ mFFTSize = PlanBefore(instance)

\* ------------------------------------------------------------------------
\* Actions
\* ------------------------------------------------------------------------
\* process, up to the channel loop
ProcessValidate ==
    /\ pc = "call"
    /\ entry = "process"
    /\ IF ProcessRejects(inputBuffer, fRatio, sampleRate)
       THEN /\ result' = "false"
            /\ pc' = "returned"
            /\ UNCHANGED outputBuffer
       ELSE /\ outputBuffer' = ResizedOutput(inputBuffer.numChannels,
                                             inputBuffer.numSamples)
            /\ pc' = "detect"
            /\ UNCHANGED result
    /\ UNCHANGED << others, args, grainData, ch, locals, mFFTSize >>

\* processWithGrainExport, up to the single-channel view
GrainExportValidate ==
    /\ pc = "call"
    /\ entry = "processWithGrainExport"
    /\ IF GrainExportRejects(inputBuffer, fRatio, sampleRate)
       THEN /\ result' = "false"
            /\ pc' = "returned"
            /\ UNCHANGED outputBuffer
       ELSE /\ outputBuffer' = ResizedOutput(1, inputBuffer.numSamples)
            /\ pc' = "detect"
            /\ UNCHANGED result
    /\ UNCHANGED << others, args, grainData, ch, locals, mFFTSize >>

\* detectPitchPeriods and the check of its result
DetectPitchPeriods ==
    /\ pc = "detect"
    /\ SequenceLength(sampleRate, config) >= 1
    /\ LET plan   == PlanSize(mFFTSize, FftSize(SequenceLength(sampleRate, config)))
           first  == FirstPass(mFFTSize, Channel, sampleRate, config)
           second == IF first.periods = <<>> THEN NoPass
                     ELSE SecondPass(plan, Channel, sampleRate, config, first)
           found  == IF first.periods = <<>> THEN <<>> ELSE second.periods
       IN  /\ pass1' = first
           /\ pass2' = second
           /\ periods' = found
           /\ IF found = <<>>
              THEN result' = "false" /\ pc' = "returned"
              ELSE pc' = "place" /\ UNCHANGED result
    /\ mFFTSize' = PlanSize(mFFTSize, FftSize(SequenceLength(sampleRate, config)))
    /\ UNCHANGED << others, args, outputBuffer, grainData, ch, hopSize,
                    analysisPitchMarks, synthesisPitchMarks >>

\* sequenceLength = 0: offset never advances and the loop of
\* computePeriodsPerSequence does not end
DetectNeverReturns ==
    /\ pc = "detect"
    /\ SequenceLength(sampleRate, config) = 0
    /\ pc' = "hang"
    /\ UNCHANGED << others, args, outputBuffer, grainData, result, ch, locals, mFFTSize >>

\* The read of fftData[minPeriod * 2] past the end of the buffer may also
\* end the process
DetectReadFault ==
    /\ pc = "detect"
    /\ SequenceLength(sampleRate, config) >= 1
    /\ FftReadOutOfBounds(SequenceLength(sampleRate, config),
                          MinPeriodSamples(sampleRate, config))
    /\ pc' = "crash"
    /\ mFFTSize' = PlanSize(mFFTSize, FftSize(SequenceLength(sampleRate, config)))
    /\ UNCHANGED << others, args, outputBuffer, grainData, result, ch, locals >>

\* placePitchMarks, up to the tracking loop
PlaceFirstMark ==
    /\ pc = "place"
    /\ hopSize' = SequenceLength(sampleRate, config)
    /\ analysisPitchMarks' = << FirstPeak(Channel, periods) >>
    /\ pc' = "track"
    /\ UNCHANGED << others, args, outputBuffer, grainData, result, ch, pass1, pass2,
                    periods, synthesisPitchMarks, mFFTSize >>

\* One iteration of the tracking loop: leave it, or append a mark
TrackNextMark ==
    /\ pc = "track"
    /\ LET prevPeak == analysisPitchMarks[Len(analysisPitchMarks)]
       IN  IF TrackingStops(Channel, periods, hopSize, prevPeak)
           THEN /\ pc' = "interpolate"
                /\ UNCHANGED analysisPitchMarks
           ELSE /\ Len(analysisPitchMarks) < MaxMarks
                /\ analysisPitchMarks' =
                       Append(analysisPitchMarks,
                              NextPeak(Channel, periods, hopSize, prevPeak))
                /\ UNCHANGED pc
    /\ UNCHANGED << others, args, outputBuffer, grainData, result, ch, pass1, pass2,
                    periods, hopSize, synthesisPitchMarks, mFFTSize >>

\* interpolatePitchMarks
InterpolateMarks ==
    /\ pc = "interpolate"
    /\ synthesisPitchMarks' = InterpolatePitchMarks(analysisPitchMarks, fRatio)
    /\ pc' = "overlapAdd"
    /\ UNCHANGED << others, args, outputBuffer, grainData, result, ch, pass1, pass2,
                    periods, hopSize, analysisPitchMarks, mFFTSize >>

\* psolaOverlapAdd on the current channel, then the next channel or return
OverlapAdd ==
    /\ pc = "overlapAdd"
    /\ entry = "process"
    /\ outputBuffer' =
           [outputBuffer EXCEPT !.data[ch + 1] =
               PsolaOverlapAdd(inputBuffer.numSamples, analysisPitchMarks,
                               synthesisPitchMarks)]
    /\ IF ch + 1 < inputBuffer.numChannels
       THEN /\ ch' = ch + 1
            /\ pc' = "detect"
            /\ pass1' = NoPass
            /\ pass2' = NoPass
            /\ periods' = <<>>
            /\ hopSize' = 0
            /\ analysisPitchMarks' = <<>>
            /\ synthesisPitchMarks' = <<>>
            /\ UNCHANGED result
       ELSE /\ result' = "true"
            /\ pc' = "returned"
            /\ UNCHANGED << ch, locals >>
    /\ UNCHANGED << others, args, grainData, mFFTSize >>

\* processWithGrainExport: grain data header, psolaOverlapAddWithGrainExport
OverlapAddWithGrainExport ==
    /\ pc = "overlapAdd"
    /\ entry = "processWithGrainExport"
    /\ LET done == PsolaOverlapAddWithGrainExport(inputBuffer.numSamples,
                                                  analysisPitchMarks,
                                                  synthesisPitchMarks, fRatio)
       IN  /\ outputBuffer' = [outputBuffer EXCEPT !.data[1] = done.output]
           /\ grainData' = GrainDataAfter(grainData, fRatio, inputBuffer.numSamples,
                                          analysisPitchMarks, synthesisPitchMarks,
                                          done.grains)
    /\ result' = "true"
    /\ pc' = "returned"
    /\ UNCHANGED << others, args, ch, locals, mFFTSize >>

Next ==
    \/ ProcessValidate
    \/ GrainExportValidate
    \/ DetectPitchPeriods
    \/ DetectNeverReturns
    \/ DetectReadFault
    \/ PlaceFirstMark
    \/ TrackNextMark
    \/ InterpolateMarks
    \/ OverlapAdd
    \/ OverlapAddWithGrainExport

Spec == Init /\ [][Next]_vars

\* ------------------------------------------------------------------------
\* process on mono signals with samples of either sign
\* ------------------------------------------------------------------------
SignedSampleValues == {-1, 0, 1}

SignedInputBuffers ==
    { Buffer(1, Len(sig), <<sig>>) :
        sig \in UNION { [1..n -> SignedSampleValues] : n \in 1..MaxSamples } }

SignedInit ==
    /\ AudioFileProcessorConstructed
    /\ BufferProcessingManagerConstructed
    /\ EditorConstructed("missing")
    /\ entry = "process"
    /\ inputBuffer \in SignedInputBuffers
    /\ fRatio \in { r \in Ratios : r.num >= r.den }
    /\ sampleRate \in {100, 200}
    /\ config \in { c \in Configs :
                       /\ c.analysisWindowMs = 25
                       /\ c.maxHz <= 100
                       /\ ~FftReadOutOfBounds(SequenceLength(sampleRate, c),
                                              MinPeriodSamples(sampleRate, c)) }
    /\ caller = "fresh"
    /\ instance = "new"
    /\ outputBuffer = OutputBefore(caller)
    /\ grainData = GrainDataBefore(caller)
    /\ result = "pending"
    /\ pc = "call"
    /\ ch = 0
    /\ pass1 = NoPass
    /\ pass2 = NoPass
    /\ periods = <<>>
    /\ hopSize = 0
    /\ analysisPitchMarks = <<>>
    /\ synthesisPitchMarks = <<>>
    /\ mFFTSize = PlanBefore(instance)

SignedNext ==
    \/ ProcessValidate
    \/ DetectPitchPeriods
    \/ PlaceFirstMark
    \/ TrackNextMark
    \/ InterpolateMarks
    \/ OverlapAdd

SignedSpec == SignedInit /\ [][SignedNext]_vars

\* ------------------------------------------------------------------------
\* process with several values of Config::inTypeScalar
\* ------------------------------------------------------------------------
InTypeScalars ==
    { [num |-> 0, den |-> 1], [num |-> 1, den |-> 2],
      [num |-> 11, den |-> 5], [num |-> 10, den |-> 1] }

ScalarConfigs ==
    { [maxHz |-> 100, minHz |-> 25, analysisWindowMs |-> ms,
       inTypeScalarNum |-> k.num, inTypeScalarDen |-> k.den] :
        ms \in {10, 25}, k \in InTypeScalars }

ScalarInit ==
    /\ AudioFileProcessorConstructed
    /\ BufferProcessingManagerConstructed
    /\ EditorConstructed("missing")
    /\ entry = "process"
    /\ inputBuffer \in { b \in InputBuffers : b.numChannels = 1 /\ b.numSamples >= 1 }
    /\ fRatio = [num |-> 1, den |-> 1]
    /\ sampleRate = 200
    /\ config \in ScalarConfigs
    /\ caller = "fresh"
    /\ instance = "new"
    /\ outputBuffer = OutputBefore(caller)
    /\ grainData = GrainDataBefore(caller)
    /\ result = "pending"
    /\ pc = "call"
    /\ ch = 0
    /\ pass1 = NoPass
    /\ pass2 = NoPass
    /\ periods = <<>>
    /\ hopSize = 0
    /\ analysisPitchMarks = <<>>
    /\ synthesisPitchMarks = <<>>
    /\ mFFTSize = PlanBefore(instance)

ScalarSpec == ScalarInit /\ [][SignedNext]_vars

\* ------------------------------------------------------------------------
\* AudioFileProcessor::processFile
\* ------------------------------------------------------------------------
\* No TD-PSOLA call is made while the file processor is followed
NoPitchShiftCall ==
    /\ entry = "process"
    /\ inputBuffer = Buffer(0, 0, <<>>)
    /\ fRatio = [num |-> 1, den |-> 1]
    /\ sampleRate = 0
    /\ config \in { c \in Configs : c.maxHz = 200 }
    /\ caller = "fresh"
    /\ instance = "new"
    /\ outputBuffer = OutputBefore(caller)
    /\ grainData = GrainDataBefore(caller)
    /\ result = "pending"
    /\ pc = "call"
    /\ ch = 0
    /\ pass1 = NoPass
    /\ pass2 = NoPass
    /\ periods = <<>>
    /\ hopSize = 0
    /\ analysisPitchMarks = <<>>
    /\ synthesisPitchMarks = <<>>
    /\ mFFTSize = PlanBefore(instance)

FileInit ==
    /\ AudioFileProcessorConstructed
    /\ BufferProcessingManagerConstructed
    /\ EditorConstructed("missing")
    /\ NoPitchShiftCall

\* processFile is called: lastError.clear()
ProcessFileCall ==
    /\ filePc = "idle"
    /\ Len(fileReturned) < MaxFileCalls
    /\ inputFile' \in InputFiles
    /\ outputFile' \in OutputFiles
    /\ progressCallback' \in BOOLEAN
    /\ lastError' = ErrorOnEntry(lastError)
    /\ fileProgress' = <<>>
    /\ filePc' = "validate"
    /\ UNCHANGED << fileReturned, psolaVars, bufferVars, editorVars >>

\* The two validations, then progress 0.0
ProcessFileValidate ==
    /\ filePc = "validate"
    /\ IF ValidateInputFile(inputFile) /= EmptyString
       THEN /\ lastError' = Literal("Input file validation failed: ")
                                \o ValidateInputFile(inputFile)
            /\ fileReturned' = Append(fileReturned, FALSE)
            /\ filePc' = "idle"
            /\ UNCHANGED fileProgress
       ELSE IF ValidateOutputPath(outputFile) /= EmptyString
       THEN /\ lastError' = Literal("Output path validation failed: ")
                                \o ValidateOutputPath(outputFile)
            /\ fileReturned' = Append(fileReturned, FALSE)
            /\ filePc' = "idle"
            /\ UNCHANGED fileProgress
       ELSE /\ fileProgress' = Reported(fileProgress, progressCallback, 0)
            /\ filePc' = "read"
            /\ UNCHANGED << lastError, fileReturned >>
    /\ UNCHANGED << inputFile, outputFile, progressCallback, psolaVars, bufferVars, editorVars >>

\* readAudioFile, then progress 0.4, processAudioBuffer, progress 0.7
ProcessFileRead ==
    /\ filePc = "read"
    /\ \E outcome \in ReadOutcomes :
           /\ lastError' = ReadAudioFile(inputFile, outcome, lastError)
           /\ IF outcome /= "read"
              THEN /\ fileReturned' = Append(fileReturned, FALSE)
                   /\ filePc' = "idle"
                   /\ UNCHANGED fileProgress
              ELSE /\ fileProgress' =
                          Reported(Reported(fileProgress, progressCallback, 4),
                                   progressCallback, 7)
                   /\ filePc' = "write"
                   /\ UNCHANGED fileReturned
    /\ UNCHANGED << inputFile, outputFile, progressCallback, psolaVars, bufferVars, editorVars >>

\* writeAudioFile, then progress 1.0 and return true
ProcessFileWrite ==
    /\ filePc = "write"
    /\ \E outcome \in WriteOutcomes(outputFile) :
           /\ lastError' = WriteAudioFile(outputFile, outcome, lastError)
           /\ IF outcome /= "written"
              THEN /\ fileReturned' = Append(fileReturned, FALSE)
                   /\ UNCHANGED fileProgress
              ELSE /\ fileReturned' = Append(fileReturned, TRUE)
                   /\ fileProgress' = Reported(fileProgress, progressCallback, 10)
    /\ filePc' = "idle"
    /\ UNCHANGED << inputFile, outputFile, progressCallback, psolaVars, bufferVars, editorVars >>

FileNext ==
    \/ ProcessFileCall
    \/ ProcessFileValidate
    \/ ProcessFileRead
    \/ ProcessFileWrite

FileSpec == FileInit /\ [][FileNext]_vars

\* ------------------------------------------------------------------------
\* BufferProcessingManager::setActiveProcessor and ::processBuffers
\* ------------------------------------------------------------------------
BufferInit ==
    /\ BufferProcessingManagerConstructed
    /\ AudioFileProcessorConstructed
    /\ EditorConstructed("missing")
    /\ NoPitchShiftCall

\* setActiveProcessor(processor)
SetActiveProcessor ==
    /\ bufferPc = "idle"
    /\ Len(requested) < MaxRequests
    /\ \E processor \in ActiveProcessors :
           /\ connections' = ConnectionsAfterSetActive(connections, processor)
           /\ mActiveProcessor' = ActiveProcessorFor(processor)
           /\ requested' = Append(requested, processor)
    /\ UNCHANGED << managerLastError, bufferPc, totalSamples, numInputChannels,
                    outputSized, blockSize, reportsProgress, samplesProcessed,
                    blocks, bufferProgress, bufferReturned, psolaVars, fileVars, editorVars >>

\* processBuffers up to its loop: lastError.clear(), the two validations,
\* the preparation of the graph
ProcessBuffersCall ==
    /\ bufferPc = "idle"
    /\ totalSamples' \in 0..MaxTotalSamples
    /\ numInputChannels' \in 0..2
    /\ outputSized' \in BOOLEAN
    /\ blockSize' \in 0..MaxBlockSize
    /\ reportsProgress' \in BOOLEAN
    /\ samplesProcessed' = 0
    /\ blocks' = <<>>
    /\ bufferProgress' = <<>>
    /\ IF numInputChannels' = 0 \/ totalSamples' = 0
       THEN /\ managerLastError' = Literal("Input buffer is empty")
            /\ bufferReturned' = "false"
            /\ bufferPc' = "idle"
       ELSE IF ~outputSized'
       THEN /\ managerLastError' = Literal("Output buffer is not sized")
            /\ bufferReturned' = "false"
            /\ bufferPc' = "idle"
       ELSE /\ managerLastError' = EmptyString
            /\ bufferReturned' = "none"
            /\ bufferPc' = "blocks"
    /\ UNCHANGED << mActiveProcessor, connections, requested, psolaVars, fileVars, editorVars >>

\* One iteration of while (samplesProcessed < totalSamples), blockSize >= 1
ProcessBlock ==
    /\ bufferPc = "blocks"
    /\ samplesProcessed < totalSamples
    /\ blockSize >= 1
    /\ LET samplesToProcess ==
               SamplesToProcess(blockSize, totalSamples - samplesProcessed)
       IN  /\ blocks' = Append(blocks, [start |-> samplesProcessed,
                                        length |-> samplesToProcess])
           /\ samplesProcessed' = samplesProcessed + samplesToProcess
           /\ bufferProgress' =
                  IF reportsProgress
                  THEN Append(bufferProgress,
                              Progress(samplesProcessed + samplesToProcess,
                                       totalSamples))
                  ELSE bufferProgress
    /\ UNCHANGED << mActiveProcessor, connections, requested, managerLastError,
                    bufferPc, totalSamples, numInputChannels, outputSized,
                    blockSize, reportsProgress, bufferReturned, psolaVars,
                    fileVars, editorVars >>

\* blockSize = 0: samplesToProcess is 0 in every iteration, samplesProcessed
\* never grows and the loop does not end
ProcessBlockNeverAdvances ==
    /\ bufferPc = "blocks"
    /\ samplesProcessed < totalSamples
    /\ blockSize < 1
    /\ bufferPc' = "hang"
    /\ UNCHANGED << mActiveProcessor, connections, requested, managerLastError,
                    totalSamples, numInputChannels, outputSized, blockSize,
                    reportsProgress, samplesProcessed, blocks, bufferProgress,
                    bufferReturned, psolaVars, fileVars, editorVars >>

\* The loop is left: releaseResources(), return true
ProcessBuffersReturn ==
    /\ bufferPc = "blocks"
    /\ samplesProcessed >= totalSamples
    /\ bufferReturned' = "true"
    /\ bufferPc' = "idle"
    /\ UNCHANGED << mActiveProcessor, connections, requested, managerLastError,
                    totalSamples, numInputChannels, outputSized, blockSize,
                    reportsProgress, samplesProcessed, blocks, bufferProgress,
                    psolaVars, fileVars, editorVars >>

BufferNext ==
    \/ SetActiveProcessor
    \/ ProcessBuffersCall
    \/ ProcessBlock
    \/ ProcessBlockNeverAdvances
    \/ ProcessBuffersReturn

BufferSpec == BufferInit /\ [][BufferNext]_vars

\* processBuffers runs on the calling thread and nothing in its loop waits
BufferFairSpec ==
    BufferSpec /\ WF_vars(ProcessBlock) /\ WF_vars(ProcessBuffersReturn)

\* ------------------------------------------------------------------------
\* FileProcessingManager, driven by the editor and by other callers
\* ------------------------------------------------------------------------
EditorInit ==
    /\ AudioFileProcessorConstructed
    /\ BufferProcessingManagerConstructed
    /\ NoPitchShiftCall
    /\ \E defaultInput \in {"missing", "default"} : EditorConstructed(defaultInput)

\* What the file-processing actions leave alone
idle == << psolaVars, fileVars, bufferVars >>

\* chooseInputFile, the callback of the file chooser
ChooseInputFile ==
    /\ \E existsAsFile \in BOOLEAN :
           IF existsAsFile
           THEN /\ mInputFile' = "chosen"
                /\ processButtonEnabled' = CanProcess(TRUE, FALSE, mThread)
           ELSE UNCHANGED << mInputFile, processButtonEnabled >>
    /\ UNCHANGED << mThread, mIsProcessing, threadsStarted, mOutputFile,
                    currentProgress, statusLabel, lastStart, awaiting, idle >>

\* chooseOutputFile, the callback of the file chooser
ChooseOutputFile ==
    /\ \E pathEmpty \in BOOLEAN, inputExists \in ExistsAsFile(mInputFile) :
           IF ~pathEmpty
           THEN /\ mOutputFile' = "chosen"
                /\ processButtonEnabled' = CanProcess(inputExists, FALSE, mThread)
           ELSE UNCHANGED << mOutputFile, processButtonEnabled >>
    /\ UNCHANGED << mThread, mIsProcessing, threadsStarted, mInputFile,
                    currentProgress, statusLabel, lastStart, awaiting, idle >>

\* A click on Process: AudioFileTransformerEditor::processFile, which calls
\* startFileProcessing and drops what it returns
ClickProcess ==
    /\ processButtonEnabled
    /\ threadsStarted < MaxThreads
    /\ processButtonEnabled' = FALSE
    /\ statusLabel' = Status("Processing... ", 0)
    /\ awaiting' = TRUE
    /\ \E inputExists \in ExistsAsFile(mInputFile) :
           LET done == StartFileProcessing(mThread, mIsProcessing, threadsStarted,
                                           ProcessingConfig(inputExists, FALSE,
                                                            "editor"))
           IN  /\ mThread' = done.mThread
               /\ mIsProcessing' = done.mIsProcessing
               /\ threadsStarted' = done.started
               /\ lastStart' = done.call
    /\ UNCHANGED << mInputFile, mOutputFile, currentProgress, idle >>

\* FileProcessingManager::startProcessing called by another owner of a
\* manager, with a configuration of its own
StartProcessingCall ==
    /\ threadsStarted < MaxThreads
    /\ \E inputExists \in BOOLEAN, outputPathEmpty \in BOOLEAN :
           LET done == StartProcessing(mThread, mIsProcessing, threadsStarted,
                                       ProcessingConfig(inputExists,
                                                        outputPathEmpty, "none"))
           IN  /\ mThread' = done.mThread
               /\ mIsProcessing' = done.mIsProcessing
               /\ threadsStarted' = done.started
               /\ lastStart' = done.call
    /\ UNCHANGED << mInputFile, mOutputFile, currentProgress,
                    processButtonEnabled, statusLabel, awaiting, idle >>

\* FileProcessingManager::stopProcessing: stopThread(5000) lets the thread
\* end or ends it, then the thread object is destroyed
StopProcessing ==
    /\ mThread /= NoThread
    /\ mThread' = NoThread
    /\ mIsProcessing' = FALSE
    /\ UNCHANGED << threadsStarted, mInputFile, mOutputFile, currentProgress,
                    processButtonEnabled, statusLabel, lastStart, awaiting, idle >>

\* ProcessingThread::run: processFile fails before processBuffers reports
\* progress (no processor, validation, reading, channel layout)
ThreadFailsEarly ==
    /\ IsProcessing(mThread)
    /\ mThread.at = "run"
    /\ mThread' = [mThread EXCEPT !.running = FALSE, !.at = "returned",
                                   !.mSuccess = FALSE, !.mError = "failed"]
    /\ UNCHANGED << mIsProcessing, threadsStarted, mInputFile, mOutputFile,
                    currentProgress, processButtonEnabled, statusLabel,
                    lastStart, awaiting, idle >>

\* ProcessingThread::run: processBuffers has processed one more block and
\* calls progressCallback
ThreadReportsProgress ==
    /\ IsProcessing(mThread)
    /\ mThread.progress < FullProgress
    /\ mThread' = [mThread EXCEPT !.at = "processBuffers",
                                   !.progress = mThread.progress + 1]
    /\ currentProgress' = IF mThread.callback = "editor"
                           THEN mThread.progress + 1 ELSE currentProgress
    /\ UNCHANGED << mIsProcessing, threadsStarted, mInputFile, mOutputFile,
                    processButtonEnabled, statusLabel, lastStart, awaiting, idle >>

\* ProcessingThread::run: processBuffers has returned true; writeAudioFile
\* succeeds or fails, mSuccess and mError are stored and run() returns
ThreadReturns ==
    /\ IsProcessing(mThread)
    /\ mThread.progress = FullProgress
    /\ \E written \in BOOLEAN :
           mThread' = [mThread EXCEPT !.running = FALSE, !.at = "returned",
                                      !.mSuccess = written,
                                      !.mError = IF written THEN "" ELSE "failed"]
    /\ UNCHANGED << mIsProcessing, threadsStarted, mInputFile, mOutputFile,
                    currentProgress, processButtonEnabled, statusLabel,
                    lastStart, awaiting, idle >>

\* AudioFileTransformerEditor::timerCallback
TimerCallback ==
    /\ IF IsProcessing(mThread)
       THEN /\ statusLabel' = Status("Processing... ", currentProgress)
            /\ UNCHANGED << currentProgress, processButtonEnabled, awaiting >>
       ELSE IF currentProgress > 0
       THEN /\ currentProgress' = 0
            /\ processButtonEnabled' = TRUE
            /\ awaiting' = FALSE
            /\ statusLabel' = IF WasSuccessful(mThread)
                               THEN Status("Processing complete!", "")
                               ELSE Status("Error: ", GetError(mThread))
       ELSE UNCHANGED << currentProgress, processButtonEnabled, awaiting,
                         statusLabel >>
    /\ UNCHANGED << mThread, mIsProcessing, threadsStarted, mInputFile,
                    mOutputFile, lastStart, idle >>

EditorNext ==
    \/ ChooseInputFile
    \/ ChooseOutputFile
    \/ ClickProcess
    \/ StartProcessingCall
    \/ StopProcessing
    \/ ThreadFailsEarly
    \/ ThreadReportsProgress
    \/ ThreadReturns
    \/ TimerCallback

EditorSpec == EditorInit /\ [][EditorNext]_vars

\* The timer fires ten times a second and a started thread keeps running
EditorFairSpec ==
    /\ EditorSpec
    /\ WF_vars(TimerCallback)
    /\ WF_vars(ThreadFailsEarly \/ ThreadReportsProgress \/ ThreadReturns)

\* ------------------------------------------------------------------------
\* Properties
\* ------------------------------------------------------------------------
NumChannels == inputBuffer.numChannels
NumSamples == inputBuffer.numSamples

\* The arguments pass the checks of lines 31 and 37
ValidArguments ==
    /\ fRatio.num > 0
    /\ sampleRate > 0
    /\ NumChannels >= 1
    /\ NumSamples >= 1

\* The estimator has returned for the current channel and process goes on
Estimated == pc \in {"place", "track", "interpolate", "overlapAdd"}

\* C1: whenever process returns true, the output buffer has exactly the
\* channel count and the sample count of the input.
LengthInvariance ==
    (entry = "process" /\ pc = "returned" /\ result = "true") =>
        /\ outputBuffer.numChannels = NumChannels
        /\ outputBuffer.numSamples = NumSamples
        /\ Len(outputBuffer.data) = NumChannels
        /\ \A c \in 1..Len(outputBuffer.data) :
               Len(outputBuffer.data[c]) = NumSamples

\* C1 witness: a successful stereo upward shift into a buffer that had
\* another size before
LengthInvarianceWitness ==
    /\ entry = "process"
    /\ pc = "returned"
    /\ result = "true"
    /\ NumChannels = 2
    /\ NumSamples = 3
    /\ fRatio.num > fRatio.den
    /\ caller = "reused"
    /\ outputBuffer.numChannels = 2
    /\ outputBuffer.numSamples = 3

\* C2: with fRatio <= 0, sampleRate <= 0, zero channels or zero samples,
\* process returns false before any processing; the output buffer is
\* neither resized nor written.
InvalidArgumentsRejected ==
    (entry = "process" /\ ~ValidArguments) =>
        /\ pc \in {"call", "returned"}
        /\ pc = "returned" => result = "false"
        /\ outputBuffer = OutputBefore(caller)
        /\ periods = <<>>
        /\ analysisPitchMarks = <<>>
        /\ synthesisPitchMarks = <<>>

\* C2 witness: a one-channel input without samples was rejected and the
\* caller's buffer still holds what it held
InvalidArgumentsRejectedWitness ==
    /\ entry = "process"
    /\ pc = "returned"
    /\ result = "false"
    /\ fRatio.num > 0
    /\ sampleRate > 0
    /\ NumChannels = 1
    /\ NumSamples = 0
    /\ caller = "reused"
    /\ outputBuffer.numSamples = 2

\* C3 as stated: a signal shorter than one analysis window yields an empty
\* estimate sequence and process returns false.
ShortSignalFails ==
    (entry = "process" /\ ValidArguments
        /\ NumSamples < SequenceLength(sampleRate, config)) =>
        /\ Estimated => periods = <<>>
        /\ pc = "returned" => result = "false"

\* C3 amended: a signal shorter than one analysis window is estimated as a
\* single short window, one estimate per pass, and when process returns it
\* returns true.
ShortSignalOneEstimate ==
    (entry = "process" /\ ValidArguments
        /\ NumSamples < SequenceLength(sampleRate, config)) =>
        /\ Estimated => (Len(pass1.periods) = 1 /\ Len(periods) = 1)
        /\ pc = "returned" => result = "true"

\* C3 witness: process returned true on a signal shorter than the window
ShortSignalOneEstimateWitness ==
    /\ entry = "process"
    /\ ValidArguments
    /\ NumSamples < SequenceLength(sampleRate, config)
    /\ pc = "returned"
    /\ result = "true"
    /\ Len(periods) = 1

\* C4: processWithGrainExport on more than one channel returns false at
\* once; output buffer and GrainData stay as they were.
GrainExportMonoOnly ==
    (entry = "processWithGrainExport" /\ NumChannels > 1) =>
        /\ pc \in {"call", "returned"}
        /\ pc = "returned" => result = "false"
        /\ outputBuffer = OutputBefore(caller)
        /\ grainData = GrainDataBefore(caller)

\* C4 witness: an otherwise valid stereo call was rejected
GrainExportMonoOnlyWitness ==
    /\ entry = "processWithGrainExport"
    /\ ValidArguments
    /\ NumChannels = 2
    /\ caller = "reused"
    /\ pc = "returned"
    /\ result = "false"
    /\ grainData = StaleGrainData

\* C5 as stated: the number of synthesis marks is N * fRatio rounded to the
\* nearest integer (either way at a tie).
SynthesisCountNearest ==
    pc = "overlapAdd" =>
        Abs(2 * fRatio.den * Len(synthesisPitchMarks)
            - 2 * Len(analysisPitchMarks) * fRatio.num) <= fRatio.den

\* C5 amended: the number of synthesis marks is N * fRatio truncated, the
\* greatest integer M with M <= N * fRatio.
SynthesisCountTruncated ==
    pc = "overlapAdd" =>
        /\ Len(synthesisPitchMarks) * fRatio.den
               <= Len(analysisPitchMarks) * fRatio.num
        /\ Len(analysisPitchMarks) * fRatio.num
               < (Len(synthesisPitchMarks) + 1) * fRatio.den

\* C5 witness: the fraction of N * fRatio exceeds one half, so truncating
\* and rounding differ
SynthesisCountTruncatedWitness ==
    /\ pc = "overlapAdd"
    /\ Len(analysisPitchMarks) >= 3
    /\ 2 * ((Len(analysisPitchMarks) * fRatio.num) % fRatio.den) > fRatio.den

\* C6: the analysis marks returned by the pitch marker are strictly
\* increasing and lie in [0, numSamples).
AnalysisMarksIncreasing ==
    pc \in {"interpolate", "overlapAdd"} =>
        /\ \A i \in 1..Len(analysisPitchMarks) :
               analysisPitchMarks[i] >= 0 /\ analysisPitchMarks[i] < NumSamples
        /\ \A i \in 1..(Len(analysisPitchMarks) - 1) :
               analysisPitchMarks[i] < analysisPitchMarks[i + 1]

\* C6 witness: the marker returned four marks, the last on the last sample
AnalysisMarksIncreasingWitness ==
    /\ pc = "interpolate"
    /\ Len(analysisPitchMarks) >= 4
    /\ analysisPitchMarks[Len(analysisPitchMarks)] = NumSamples - 1

\* C7: the synthesis marks are weakly increasing and lie between the first
\* and the last analysis mark, hence in [0, numSamples).
SynthesisMarksOrdered ==
    pc = "overlapAdd" =>
        /\ \A i \in 1..Len(synthesisPitchMarks) :
               LET m == synthesisPitchMarks[i]
               IN  /\ analysisPitchMarks[1] * m.den <= m.num
                   /\ m.num <= analysisPitchMarks[Len(analysisPitchMarks)] * m.den
                   /\ 0 <= m.num
                   /\ m.num < NumSamples * m.den
        /\ \A i \in 1..(Len(synthesisPitchMarks) - 1) :
               synthesisPitchMarks[i].num * synthesisPitchMarks[i + 1].den
                   <= synthesisPitchMarks[i + 1].num * synthesisPitchMarks[i].den

\* C7 witness: more synthesis marks than analysis marks, one of them
\* strictly between two samples
SynthesisMarksOrderedWitness ==
    /\ pc = "overlapAdd"
    /\ Len(analysisPitchMarks) >= 2
    /\ Len(synthesisPitchMarks) > Len(analysisPitchMarks)
    /\ \E i \in 1..Len(synthesisPitchMarks) :
           synthesisPitchMarks[i].num % synthesisPitchMarks[i].den /= 0

\* The value the peak search of analysis window k (from 1) reads for lag i,
\* i < fftSize / 2
WindowValue(k, i) ==
    LET len    == SequenceLength(sampleRate, config)
        offset == (k - 1) * len
        half   == mFFTSize \div 2
    IN  AcfValue(WindowSamples(Channel, offset, Min(len, NumSamples - offset), half),
                 half, i)

\* p is the first index of lo..(hi - 1) at which WindowValue(k, _) is maximal
FirstMaximum(k, p, lo, hi) ==
    \A i \in lo..(hi - 1) :
        /\ WindowValue(k, i) <= WindowValue(k, p)
        /\ i < p => WindowValue(k, i) < WindowValue(k, p)

\* C8 as stated: in each pass every estimate p satisfies lower <= p < upper
\* and is the first index of [lower, upper) with the maximal value (the
\* values exist for indices below fftSize / 2).
PeakWithinBounds ==
    Estimated =>
        \A P \in {pass1, pass2} : \A k \in 1..Len(P.periods) :
            LET p == P.periods[k]
            IN  /\ P.lower <= p
                /\ p < P.upper
                /\ p < mFFTSize \div 2 =>
                       FirstMaximum(k, p, P.lower, Min(P.upper, mFFTSize \div 2))

\* C8 amended: with last = min(upper, fftSize / 2), every estimate p is the
\* first index of [lower, last) with the maximal value when lower < last,
\* and p = lower when that range is empty.
PeakWithinSearchedRange ==
    Estimated =>
        \A P \in {pass1, pass2} : \A k \in 1..Len(P.periods) :
            LET p    == P.periods[k]
                last == Min(P.upper, mFFTSize \div 2)
            IN  IF P.lower < last
                THEN /\ P.lower <= p
                     /\ p < last
                     /\ FirstMaximum(k, p, P.lower, last)
                ELSE p = P.lower

\* C8 witness: the first pass chose a peak above its lower bound, and the
\* second pass searched a tightened, non-empty range
PeakWithinSearchedRangeWitness ==
    /\ pc = "place"
    /\ pass1.periods[1] > pass1.lower
    /\ pass2.upper < pass1.upper
    /\ pass2.lower < pass2.upper
    /\ Len(pass2.periods) = 2

\* C9: each pass of the estimator returns ceil(numSamples /
\* analysisWindowSamples) estimates, the last window possibly shorter.
PeriodCountIsCeiling ==
    Estimated =>
        \A P \in {pass1, pass2} :
            /\ (Len(P.periods) - 1) * SequenceLength(sampleRate, config) < NumSamples
            /\ NumSamples <= Len(P.periods) * SequenceLength(sampleRate, config)

\* C9 witness: two windows, the second one shorter than the first
PeriodCountIsCeilingWitness ==
    /\ pc = "place"
    /\ SequenceLength(sampleRate, config) = 5
    /\ NumSamples = 6
    /\ Len(periods) = 2

\* C10 as stated: maxFundamentalHz > minFundamentalHz > 0 and sampleRate > 0
\* give minPeriodSamples < maxPeriodSamples.
PeriodBoundsStrict ==
    (Estimated /\ sampleRate > 0 /\ config.maxHz > config.minHz /\ config.minHz > 0)
        => pass1.lower < pass1.upper

\* C10 amended: they give minPeriodSamples <= maxPeriodSamples; the two are
\* equal when both quotients truncate to the same integer.
PeriodBoundsOrdered ==
    (Estimated /\ sampleRate > 0 /\ config.maxHz > config.minHz /\ config.minHz > 0)
        => pass1.lower <= pass1.upper

\* C10 witness: both bounds truncate to the same period
PeriodBoundsOrderedWitness ==
    /\ pc = "place"
    /\ config.maxHz > config.minHz
    /\ pass1.lower = pass1.upper
    /\ pass1.lower = MinPeriodSamples(sampleRate, config)
    /\ pass1.lower > 0

\* Grain j of the channel processed last, and the grains whose destination
\* window [newWindowStart, newWindowEnd) holds output index o
Grain(j) == GrainGeometry(NumSamples, analysisPitchMarks, synthesisPitchMarks, j)

CoveringGrains(o) ==
    { j \in 0..(Len(synthesisPitchMarks) - 1) :
        Grain(j).newWindowStart <= o /\ o < Grain(j).newWindowEnd }

\* The output channel written last
LastOutputChannel == outputBuffer.data[ch + 1]

\* C11: the output is cleared before synthesis and every grain is added:
\* after synthesis each output sample is the sum of one windowed source
\* sample for every grain whose destination window covers it, in grain
\* order, nothing else; a sample no grain covers is zero.
OverlapAddAccumulates ==
    (pc = "returned" /\ result = "true") =>
        \A o \in 0..(NumSamples - 1) :
            LET sample == LastOutputChannel[o + 1]
            IN  /\ Len(sample) = Cardinality(CoveringGrains(o))
                /\ \A j \in CoveringGrains(o) : \E t \in 1..Len(sample) :
                       sample[t] = Term(j, o - Grain(j).newWindowStart,
                                        Grain(j).windowLength,
                                        Grain(j).origWindowStart
                                            + (o - Grain(j).newWindowStart))
                /\ \A t \in 1..(Len(sample) - 1) :
                       sample[t].grain < sample[t + 1].grain
                /\ CoveringGrains(o) = {} => sample = <<>>

\* C11 witness: a buffer that held other samples before the call now has a
\* sample two grains were added to and a sample no grain covers
OverlapAddAccumulatesWitness ==
    /\ pc = "returned"
    /\ result = "true"
    /\ caller = "reused"
    /\ \E o \in 1..NumSamples : Len(LastOutputChannel[o]) >= 2
    /\ \E o \in 1..NumSamples : LastOutputChannel[o] = <<>>

ChannelsIndependent ==
    (entry = "process" /\ pc = "returned" /\ result = "true"
        /\ NumChannels >= 2) =>
        \A c \in 1..NumChannels :
            outputBuffer.data[c] =
                ChannelOutput(inputBuffer.data[c], fRatio, sampleRate, config)

\* C13 witness: a successful stereo run whose two input channels differ
\* and whose two output channels differ
ChannelsIndependentWitness ==
    /\ entry = "process"
    /\ pc = "returned"
    /\ result = "true"
    /\ NumChannels = 2
    /\ inputBuffer.data[1] /= inputBuffer.data[2]
    /\ outputBuffer.data[1] /= outputBuffer.data[2]
    /\ \E o \in 1..NumSamples : outputBuffer.data[2][o] /= <<>>

\* C14: when process returns, its flag is decided by the arguments alone,
\* and when the flag is true so are the size and the samples of the output
\* buffer: neither the plan the instance held from earlier calls nor the
\* earlier size and contents of the output buffer have any part in them.
ResultFromArgumentsOnly ==
    (entry = "process" /\ pc = "returned") =>
        /\ result = (IF ProcessRejects(inputBuffer, fRatio, sampleRate)
                     THEN "false" ELSE "true")
        /\ result = "true" =>
               outputBuffer =
                   Buffer(NumChannels, NumSamples,
                          [c \in 1..NumChannels |->
                              ChannelOutput(inputBuffer.data[c], fRatio,
                                            sampleRate, config)])

\* C14 witness: process succeeded on an instance an earlier call had used
\* with another window length, writing a buffer that held other samples
\* of another size
ResultFromArgumentsOnlyWitness ==
    /\ entry = "process"
    /\ pc = "returned"
    /\ result = "true"
    /\ instance = "used"
    /\ caller = "reused"
    /\ mFFTSize /= PlanBefore(instance)
    /\ mFFTSize >= 8
    /\ NumSamples /= OutputBefore(caller).numSamples
    /\ \E o \in 1..NumSamples : Len(outputBuffer.data[1][o]) >= 2

\* Every sample of the buffer is 0.0f
AllZero(buf) ==
    \A c \in 1..Len(buf.data) : \A i \in 1..Len(buf.data[c]) : buf.data[c][i] = 0

\* The term is a window value times a sample of sig that is zero, so the
\* term is zero for every finite window value
ZeroTerm(sig, t) == t.src >= 0 /\ t.src < Len(sig) /\ sig[t.src + 1] = 0

\* C15: for an all-zero input, process returns false, or returns true with
\* every output sample of every channel zero: a sum (possibly empty) of
\* window values each multiplied with a zero input sample.
SilenceInSilenceOut ==
    (entry = "process" /\ pc = "returned" /\ AllZero(inputBuffer)) =>
        \/ result = "false"
        \/ /\ result = "true"
           /\ \A c \in 1..Len(outputBuffer.data) :
                  \A o \in 1..Len(outputBuffer.data[c]) :
                      \A t \in 1..Len(outputBuffer.data[c][o]) :
                          ZeroTerm(inputBuffer.data[c], outputBuffer.data[c][o][t])

\* C15 witness: a successful run on four or more zero samples into a buffer
\* that held other samples, with grains added to the output
SilenceInSilenceOutWitness ==
    /\ entry = "process"
    /\ pc = "returned"
    /\ result = "true"
    /\ caller = "reused"
    /\ NumSamples >= 4
    /\ AllZero(inputBuffer)
    /\ \E o \in 1..NumSamples : Len(outputBuffer.data[1][o]) >= 2

\* getLastError(), and what the most recent processFile call returned
GetLastError == lastError
LastFileCallReturned == fileReturned[Len(fileReturned)]

\* C16: after any sequence of processFile calls, getLastError() is empty if
\* the most recent call returned true and not empty if it returned false.
LastErrorTracksLastCall ==
    (filePc = "idle" /\ fileReturned /= <<>>) =>
        (IsEmpty(GetLastError) <=> LastFileCallReturned)

\* C16 witness: a call that failed while writing was followed by a call
\* that succeeded, and the error is gone
LastErrorTracksLastCallWitness ==
    /\ filePc = "idle"
    /\ Len(fileReturned) >= 2
    /\ ~fileReturned[Len(fileReturned) - 1]
    /\ LastFileCallReturned
    /\ GetLastError = EmptyString
    /\ fileProgress = << 0, 4, 7, 10 >>

\* The call under way or just returned had non-empty, correctly sized
\* buffers and a block size of at least 1
BlockwiseCall ==
    /\ numInputChannels >= 1
    /\ totalSamples >= 1
    /\ outputSized
    /\ blockSize >= 1

\* The blocks processed so far follow one another from sample 0, none is
\* empty or longer than blockSize, and none reaches past the input
BlocksConsecutive ==
    /\ \A k \in 1..Len(blocks) :
           /\ blocks[k].length >= 1
           /\ blocks[k].length <= blockSize
           /\ blocks[k].start + blocks[k].length <= totalSamples
           /\ blocks[k].start = (IF k = 1 THEN 0
                                 ELSE blocks[k - 1].start + blocks[k - 1].length)
    /\ samplesProcessed = (IF blocks = <<>> THEN 0
                           ELSE blocks[Len(blocks)].start
                                    + blocks[Len(blocks)].length)

\* The progress values reported so far lie in (0, 1] and do not decrease
ProgressMonotone ==
    /\ \A k \in 1..Len(bufferProgress) :
           /\ 0 < bufferProgress[k].num
           /\ bufferProgress[k].num <= bufferProgress[k].den
    /\ \A k \in 1..(Len(bufferProgress) - 1) :
           bufferProgress[k].num * bufferProgress[k + 1].den
               <= bufferProgress[k + 1].num * bufferProgress[k].den

\* processBuffers has returned true
BuffersProcessed == bufferPc = "idle" /\ bufferReturned = "true"

\* What holds of such a call at every moment, and when it has returned
BlockwiseSafety ==
    (BlockwiseCall /\ bufferPc \in {"blocks", "idle"}) =>
        /\ BlocksConsecutive
        /\ ProgressMonotone
        /\ bufferPc = "idle" =>
               /\ bufferReturned = "true"
               /\ \A i \in 0..(totalSamples - 1) :
                      Cardinality({ k \in 1..Len(blocks) :
                                      /\ blocks[k].start <= i
                                      /\ i < blocks[k].start + blocks[k].length }) = 1
               /\ reportsProgress =>
                      /\ Len(bufferProgress) = Len(blocks)
                      /\ bufferProgress[Len(bufferProgress)].num
                             = bufferProgress[Len(bufferProgress)].den

\* C17: with non-empty, correctly sized buffers and blockSize >= 1,
\* processBuffers processes consecutive blocks of at most blockSize samples
\* that cover every input sample exactly once and then returns true; the
\* progress values it reports do not decrease, lie in (0, 1], and the last
\* one is exactly 1.
BlockwiseProcessing ==
    /\ []BlockwiseSafety
    /\ (BlockwiseCall /\ bufferPc = "blocks") ~> BuffersProcessed

\* C17 witness: five samples went through in blocks of two, two and one
\* sample, with progress 2/5, 4/5, 5/5 reported
BlockwiseProcessingWitness ==
    /\ BuffersProcessed
    /\ BlockwiseCall
    /\ totalSamples = 5
    /\ blockSize = 2
    /\ Len(blocks) = 3
    /\ blocks[3].length = 1
    /\ reportsProgress
    /\ bufferProgress[3] = Progress(5, 5)

\* The processor node that is not wired: no connection names it
Unconnected(node) ==
    \A c \in connections : c.source[1] /= node /\ c.destination[1] /= node

\* Both channels of the node are wired between audio input and audio output
ConnectedBetweenInputAndOutput(node) ==
    \A channel \in {0, 1} :
        /\ Connection("audioInputNodeID", channel, node, channel) \in connections
        /\ Connection(node, channel, "audioOutputNodeID", channel) \in connections

ConfigInRange ==
    /\ config.maxHz > config.minHz
    /\ config.minHz > 0
    /\ config.analysisWindowMs > 0

\* The tracking loop has just pushed the mark it started the iteration
\* from: prevPeak, periodIdx and period are again what they were, so every
\* later iteration pushes the same mark and the loop is never left
TrackingRepeats ==
    /\ pc = "track"
    /\ Len(analysisPitchMarks) >= 2
    /\ analysisPitchMarks[Len(analysisPitchMarks)]
           = analysisPitchMarks[Len(analysisPitchMarks) - 1]

\* C19: process terminates for every input that passes validation and
\* every config with maxFundamentalHz > minFundamentalHz > 0 and
\* analysisWindowMs > 0: the estimation loop is never one that cannot
\* advance, the tracking loop never repeats a mark, and the list of
\* analysis marks stays within the length of the signal.
ProcessTerminates ==
    (entry = "process" /\ ValidArguments /\ ConfigInRange) =>
        /\ pc /= "hang"
        /\ ~TrackingRepeats
        /\ Len(analysisPitchMarks) <= NumSamples

\* C20: every grain is written at the synthesis-mark position: source index
\* a + k goes to destination index trunc(s) + k, a being the selected
\* analysis mark and s the synthesis mark, also when the destination window
\* was clipped at 0 or at numSamples.
GrainAtSynthesisMark ==
    (pc = "returned" /\ result = "true") =>
        \A o \in 0..(NumSamples - 1) :
            \A t \in 1..Len(LastOutputChannel[o + 1]) :
                LET term == LastOutputChannel[o + 1][t]
                IN  term.src - Grain(term.grain).analysisMark
                        = o - Grain(term.grain).center

\* The grains the synthesis loop reaches before it leaves
ProcessedGrains ==
    0..(GrainsProcessed(NumSamples, analysisPitchMarks, synthesisPitchMarks) - 1)

\* C21: during synthesis every grain has a window length >= 0, reads the
\* source and writes the destination only at indices in [0, numSamples), and
\* reads the taper only at indices in [0, windowLength), for every pair of
\* mark sequences the earlier stages produce.
SynthesisIndicesInRange ==
    (pc = "overlapAdd" \/ (pc = "returned" /\ result = "true")) =>
        \A j \in ProcessedGrains :
            /\ Grain(j).windowLength >= 0
            /\ Grain(j).closestIdx \in 0..(Len(analysisPitchMarks) - 1)
            /\ \A c \in GrainCopies(NumSamples, Grain(j)) :
                   /\ 0 <= c.outputIdx /\ c.outputIdx < NumSamples
                   /\ 0 <= c.inputIdx /\ c.inputIdx < NumSamples
                   /\ 0 <= c.i /\ c.i < Grain(j).windowLength

\* C21 witness: synthesis has run and a grain whose destination window was
\* clipped at numSamples has added three samples or more
SynthesisIndicesInRangeWitness ==
    /\ pc = "returned"
    /\ result = "true"
    /\ \E j \in ProcessedGrains :
           /\ Grain(j).center + Grain(j).samplesToNext > NumSamples
           /\ Cardinality(GrainCopies(NumSamples, Grain(j))) >= 3

\* C22: once a run has finished on its own (the thread object is still
\* there, its thread no longer runs, isProcessing() is false), a
\* startProcessing call with an existing input file and a non-empty output
\* path returns true and starts a new thread.
RestartAfterFinishedRun ==
    (lastStart.met = "finished" /\ lastStart.inputExists
        /\ ~lastStart.outputPathEmpty) =>
        /\ lastStart.returned
        /\ lastStart.threadAfter /= lastStart.threadBefore

\* The editor shows how the run ended
RunReported ==
    /\ processButtonEnabled
    /\ statusLabel.text \in {"Processing complete!", "Error: "}

\* C23: every click on Process is eventually followed by the Process button
\* enabled again and the status showing completion or an error.
ClickEventuallyReported == awaiting ~> RunReported

\* C24: a startProcessing call that meets a running thread returns false and
\* leaves the manager with the same thread object and no new thread started.
RunningThreadKept ==
    lastStart.met = "running" =>
        /\ ~lastStart.returned
        /\ lastStart.threadAfter = lastStart.threadBefore

\* C24 witness: a call with valid files was refused while the thread started
\* by a click was half way through the file
RunningThreadKeptWitness ==
    /\ lastStart.met = "running"
    /\ lastStart.inputExists
    /\ ~lastStart.outputPathEmpty
    /\ ~lastStart.returned
    /\ IsProcessing(mThread)
    /\ mThread.id = lastStart.threadBefore
    /\ mThread.callback = "editor"
    /\ mThread.progress = 1

\* |analysisPitchMarks[i] - s| for synthesis mark j, times the denominator of s
DistanceToMark(i, j) ==
    MarkDistance(analysisPitchMarks[i + 1], synthesisPitchMarks[j + 1])

\* C25: for every synthesis mark the analysis mark chosen as the source of
\* the grain is a nearest one, and of several equally near ones the one with
\* the smallest index.
NearestMarkLowestIndex ==
    (pc = "overlapAdd" \/ (pc = "returned" /\ result = "true")) =>
        \A j \in 0..(Len(synthesisPitchMarks) - 1) :
            LET k == Grain(j).closestIdx
            IN  /\ k \in 0..(Len(analysisPitchMarks) - 1)
                /\ \A i \in 0..(Len(analysisPitchMarks) - 1) :
                       /\ DistanceToMark(k, j) <= DistanceToMark(i, j)
                       /\ i < k => DistanceToMark(k, j) < DistanceToMark(i, j)

\* C25 witness: synthesis has run and one synthesis mark lay half way between
\* two analysis marks, away from both
NearestMarkLowestIndexWitness ==
    /\ pc = "returned"
    /\ result = "true"
    /\ \E j \in ProcessedGrains :
           \E i \in 0..(Len(analysisPitchMarks) - 1) :
               /\ i > Grain(j).closestIdx
               /\ DistanceToMark(i, j) = DistanceToMark(Grain(j).closestIdx, j)
               /\ DistanceToMark(i, j) > 0

\* The marks placed so far are final up to the last one
MarksPlaced ==
    pc \in {"track", "interpolate", "overlapAdd"}
        \/ (pc = "returned" /\ result = "true")

\* The period estimate of the analysis window that holds sample p
PeriodAt(p) == periods[(p \div hopSize) + 1]

\* C26: consecutive analysis marks p, q satisfy
\* p + trunc(0.98 T) <= q <= p + trunc(1.02 T), T the period estimate of the
\* window holding p, and q is the first index of that range at which the
\* absolute sample value is maximal.
NextMarkIsFirstAbsMaximum ==
    MarksPlaced =>
        \A m \in 1..(Len(analysisPitchMarks) - 1) :
            LET p  == analysisPitchMarks[m]
                q  == analysisPitchMarks[m + 1]
                lo == p + (PeriodAt(p) * 98) \div 100
                hi == p + (PeriodAt(p) * 102) \div 100
            IN  /\ lo <= q
                /\ q <= hi
                /\ hi < NumSamples
                /\ \A i \in lo..hi :
                       /\ Abs(Channel[i + 1]) <= Abs(Channel[q + 1])
                       /\ i < q => Abs(Channel[i + 1]) < Abs(Channel[q + 1])

\* C26 witness: a mark was placed on a negative sample, the second index of
\* its range, whose absolute value is the largest of the range
NextMarkIsFirstAbsMaximumWitness ==
    /\ pc = "interpolate"
    /\ \E m \in 1..(Len(analysisPitchMarks) - 1) :
           LET p == analysisPitchMarks[m]
               q == analysisPitchMarks[m + 1]
           IN  /\ Channel[q + 1] < 0
               /\ q = p + (PeriodAt(p) * 98) \div 100 + 1
               /\ Channel[q] = 0

\* x = mean + sign * k * std for the first-pass estimates, k = inTypeScalar
\* >= 0: with n estimates of sum S and W = n * (sum of squares) - S * S,
\* mean = S / n and std = sqrt(W) / n, so x >= m reads
\* sign * kn * sqrt(W) >= kd * (n * m - S).
VariedAtLeast(m, sign) ==
    LET n   == Len(pass1.periods)
        rhs == config.inTypeScalarDen * (n * m - SeqSum(pass1.periods))
        kkW == config.inTypeScalarNum * config.inTypeScalarNum
                   * SpreadSquared(pass1.periods)
    IN  IF sign > 0
        THEN rhs <= 0 \/ rhs * rhs <= kkW
        ELSE rhs <= 0 /\ rhs * rhs >= kkW

\* x <= m
VariedAtMost(m, sign) ==
    LET n   == Len(pass1.periods)
        rhs == config.inTypeScalarDen * (n * m - SeqSum(pass1.periods))
        kkW == config.inTypeScalarNum * config.inTypeScalarNum
                   * SpreadSquared(pass1.periods)
    IN  IF sign > 0
        THEN rhs >= 0 /\ rhs * rhs >= kkW
        ELSE rhs >= 0 \/ rhs * rhs <= kkW

\* m is x truncated toward zero
IsTruncated(m, sign) ==
    IF m > 0 THEN VariedAtLeast(m, sign) /\ ~VariedAtLeast(m + 1, sign)
    ELSE IF m < 0 THEN VariedAtMost(m, sign) /\ ~VariedAtMost(m - 1, sign)
    ELSE ~VariedAtLeast(1, sign) /\ ~VariedAtMost(-1, sign)

\* C27: the second pass runs with lower2 = max(minPeriodSamples,
\* trunc(mean - k std)) and upper2 = min(maxPeriodSamples, trunc(mean + k std)),
\* and minPeriodSamples <= lower2 <= upper2 <= maxPeriodSamples.
SecondPassBoundsOrdered ==
    (Estimated /\ config.inTypeScalarNum >= 0) =>
        /\ \E lo \in -60..60 :
               IsTruncated(lo, -1) /\ pass2.lower = Max(pass1.lower, lo)
        /\ \E hi \in 0..60 :
               IsTruncated(hi, 1) /\ pass2.upper = Min(pass1.upper, hi)
        /\ pass1.lower = MinPeriodSamples(sampleRate, config)
        /\ pass1.upper = MaxPeriodSamples(sampleRate, config)
        /\ pass1.lower <= pass2.lower
        /\ pass2.lower <= pass2.upper
        /\ pass2.upper <= pass1.upper

\* C27 witness: the first-pass estimates differ, mean - k std lies below
\* minPeriodSamples and mean + k std below maxPeriodSamples
SecondPassBoundsOrderedWitness ==
    /\ pc = "place"
    /\ SpreadSquared(pass1.periods) > 0
    /\ MinVariedPeriod(pass1.periods, config) < pass1.lower
    /\ pass2.lower = pass1.lower
    /\ pass2.upper < pass1.upper
    /\ pass2.lower < pass2.upper

\* The current channel has N >= 1 analysis marks and N * fRatio < 1
FewerThanOneSynthesisMark ==
    /\ analysisPitchMarks /= <<>>
    /\ Len(analysisPitchMarks) * fRatio.num < fRatio.den

\* C28: when N * fRatio < 1 for the N analysis marks, interpolatePitchMarks
\* returns no synthesis mark and process still returns true, with an
\* all-zero output channel of the input's length.
NoSynthesisMarkStillSucceeds ==
    (entry = "process" /\ FewerThanOneSynthesisMark) =>
        /\ pc \in {"track", "interpolate", "overlapAdd", "returned"}
        /\ pc \in {"overlapAdd", "returned"} => synthesisPitchMarks = <<>>
        /\ pc = "returned" =>
               /\ result = "true"
               /\ Len(LastOutputChannel) = NumSamples
               /\ \A o \in 1..NumSamples : LastOutputChannel[o] = <<>>

\* C28 witness: process returned true with no synthesis mark on an input
\* that holds a non-zero sample, into a buffer that held other samples
NoSynthesisMarkStillSucceedsWitness ==
    /\ entry = "process"
    /\ FewerThanOneSynthesisMark
    /\ pc = "returned"
    /\ result = "true"
    /\ caller = "reused"
    /\ NumSamples >= 3
    /\ \E o \in 1..NumSamples : Channel[o] /= 0
    /\ synthesisPitchMarks = <<>>

\* C29: after a successful processWithGrainExport the GrainData holds one
\* record per synthesis mark, in order: synthesisGrains.size() =
\* numSynthesisGrains, record i has grainId i, and nothing of an earlier run
\* is left.
OneRecordPerSynthesisMark ==
    (entry = "processWithGrainExport" /\ pc = "returned" /\ result = "true") =>
        /\ grainData.numSynthesisGrains = Len(synthesisPitchMarks)
        /\ Len(grainData.synthesisGrains) = grainData.numSynthesisGrains
        /\ \A i \in 0..(Len(grainData.synthesisGrains) - 1) :
               /\ grainData.synthesisGrains[i + 1].grainId = i
               /\ grainData.synthesisGrains[i + 1]
                      = SynthesisGrain(NumSamples, analysisPitchMarks,
                                       synthesisPitchMarks, fRatio, i)

\* C29 witness: a successful export of four grains or more into a GrainData
\* that held the record of an earlier run
OneRecordPerSynthesisMarkWitness ==
    /\ entry = "processWithGrainExport"
    /\ pc = "returned"
    /\ result = "true"
    /\ caller = "reused"
    /\ Len(synthesisPitchMarks) >= 4
    /\ Len(grainData.synthesisGrains) >= 4
    /\ grainData.synthesisGrains[1] /= StaleGrainData.synthesisGrains[1]

\* C30: for sampleRate > 0 and a config with maxHz > minHz > 0 and
\* analysisWindowMs > 0, every index at which computePeriodsPerSequence reads
\* or writes the transform buffer is below its length 2 * fftSize, the seed
\* read at 2 * minPeriod included.
TransformBufferInRange ==
    (pc = "detect" /\ sampleRate > 0 /\ ConfigInRange
        /\ SequenceLength(sampleRate, config) >= 1) =>
        \A idx \in TransformBufferIndices(
                        Min(SequenceLength(sampleRate, config), NumSamples),
                        FftSize(SequenceLength(sampleRate, config)),
                        MinPeriodSamples(sampleRate, config),
                        MaxPeriodSamples(sampleRate, config)) :
            0 <= idx /\ idx < 2 * FftSize(SequenceLength(sampleRate, config))

====
